---- MODULE Spec2Model ----
(***************************************************************************)
(* Model of twilight-interactions: the code generated by the derive macros *)
(* (CommandModel, CommandOption) together with the runtime coercions they  *)
(* call, and the derive-time validation of attributes.                     *)
(*                                                                         *)
(* Rust's Option<T> is modelled as a sequence of length at most one:       *)
(* <<>> is None and <<x>> is Some(x).                                      *)
(***************************************************************************)
EXTENDS Integers, Sequences, FiniteSets, TLC

VARIABLES
    model,      \* the type from_interaction is generated for (a declaration)
    data,       \* CommandInputData: [options, resolved]
    pc,         \* position of the generated from_interaction: "loop" | "construct" | "done"
    idx,        \* index of the next element of `for __opt in __data.options`
    acc,        \* the `let mut #ident = None;` accumulators, by field position
    result,     \* <<>> until from_interaction returns, then <<its Result>>
    arg,        \* argument of a function run on its own (a literal, a field list, ...)
    ret         \* <<>> until that function returns, then <<[by, res]>>

vars == <<model, data, pc, idx, acc, result, arg, ret>>

(***************************************************************************)
(* Option<T> helpers                                                       *)
(***************************************************************************)
None == <<>>
Some(x) == <<x>>
IsSome(o) == Len(o) = 1
Unwrap(o) == o[1]

(***************************************************************************)
(* Wire values: twilight_model's CommandOptionValue.  `ty` is what         *)
(* CommandOptionValue::kind() returns (for Focused(_, t) it is t).         *)
(***************************************************************************)
StringValue(s) == [variant |-> "String", str |-> s, int |-> 0, options |-> <<>>, ty |-> "String"]
IntegerValue(n) == [variant |-> "Integer", str |-> <<>>, int |-> n, options |-> <<>>, ty |-> "Integer"]
NumberValue(k) == [variant |-> "Number", str |-> <<>>, int |-> k, options |-> <<>>, ty |-> "Number"]
UserValue(id) == [variant |-> "User", str |-> <<>>, int |-> id, options |-> <<>>, ty |-> "User"]
FocusedValue(s, t) == [variant |-> "Focused", str |-> s, int |-> 0, options |-> <<>>, ty |-> t]
SubCommandValue(opts) == [variant |-> "SubCommand", str |-> <<>>, int |-> 0, options |-> opts, ty |-> "SubCommand"]
SubCommandGroupValue(opts) == [variant |-> "SubCommandGroup", str |-> <<>>, int |-> 0, options |-> opts, ty |-> "SubCommandGroup"]

CommandDataOption(n, v) == [name |-> n, value |-> v]
CommandInputData(opts, res) == [options |-> opts, resolved |-> res]

(***************************************************************************)
(* Errors and results                                                      *)
(***************************************************************************)
ErrorType(n, t, i, s) == [name |-> n, ty |-> t, int |-> i, str |-> s]
InvalidType(t) == ErrorType("InvalidType", t, 0, <<>>)
InvalidChoice(s) == ErrorType("InvalidChoice", "", 0, s)
IntegerOutOfRange(v) == ErrorType("IntegerOutOfRange", "", v, <<>>)
NumberOutOfRange(v) == ErrorType("NumberOutOfRange", "", v, <<>>)
LookupFailed(id) == ErrorType("LookupFailed", "", id, <<>>)
RequiredField == ErrorType("RequiredField", "", 0, <<>>)
UnknownField == ErrorType("UnknownField", "", 0, <<>>)
UnknownSubcommand == ErrorType("UnknownSubcommand", "", 0, <<>>)

EmptyOptions == [type |-> "EmptyOptions", field |-> "", kind |-> ErrorType("", "", 0, <<>>)]
ParseOptionError(f, k) == [type |-> "Option", field |-> f, kind |-> k]

Ok(v) == [ok |-> TRUE, value |-> <<v>>, err |-> <<>>]
Err(e) == [ok |-> FALSE, value |-> <<>>, err |-> <<e>>]

(***************************************************************************)
(* Parsed values                                                           *)
(***************************************************************************)
Parsed(t, s, i, in) == [tag |-> t, str |-> s, int |-> i, inner |-> in]
AutocompleteNone == Parsed("AutocompleteValue::None", <<>>, 0, <<>>)
AutocompleteFocused(s) == Parsed("AutocompleteValue::Focused", s, 0, <<>>)
AutocompleteCompleted(v) == Parsed("AutocompleteValue::Completed", <<>>, 0, <<v>>)


(***************************************************************************)
(* Runtime coercions: impl CommandOption for ...                           *)
(* A wire string is a sequence of one-byte characters, so that Len is      *)
(* String::len.  CommandOptionData carries the bounds the field declares   *)
(* (channel_types is left out: no channel option is modelled).             *)
(***************************************************************************)
CommandOptionData(maxv, minv, maxl, minl) ==
    [max_value |-> maxv, min_value |-> minv, max_length |-> maxl, min_length |-> minl]
DefaultOptionData == CommandOptionData(None, None, None, None)
\* twilight_model::application::command::CommandOptionValue (bounds)
IntegerBound(n) == [variant |-> "Integer", n |-> n]
NumberBound(n) == [variant |-> "Number", n |-> n]

\* a todo!() reached: the call does not return
Panic == [ok |-> FALSE, value |-> <<>>, err |-> <<>>]
Panicked(r) == ~r.ok /\ r.err = <<>>

StringFromOption(value, d, resolved) ==
    IF value.variant # "String" THEN Err(InvalidType(value.ty))
    ELSE IF IsSome(d.min_length) /\ Len(value.str) < Unwrap(d.min_length) THEN Panic
    ELSE IF IsSome(d.max_length) /\ Len(value.str) > Unwrap(d.max_length) THEN Panic
    ELSE Ok(Parsed("String", value.str, 0, <<>>))

\* variant: a value equal to a bound is out of range
I64FromOptionExclusive(value, d, resolved) ==
    IF value.variant # "Integer" THEN Err(InvalidType(value.ty))
    ELSE IF IsSome(d.min_value) /\ Unwrap(d.min_value).variant = "Integer"
            /\ value.int <= Unwrap(d.min_value).n
         THEN Err(IntegerOutOfRange(value.int))
    ELSE IF IsSome(d.max_value) /\ Unwrap(d.max_value).variant = "Integer"
            /\ value.int >= Unwrap(d.max_value).n
         THEN Err(IntegerOutOfRange(value.int))
    ELSE Ok(Parsed("i64", <<>>, value.int, <<>>))
I64FromOption(value, d, resolved) ==
    IF value.variant # "Integer" THEN Err(InvalidType(value.ty))
    ELSE IF IsSome(d.min_value) /\ Unwrap(d.min_value).variant = "Integer"
            /\ value.int < Unwrap(d.min_value).n
         THEN Err(IntegerOutOfRange(value.int))
    ELSE IF IsSome(d.max_value) /\ Unwrap(d.max_value).variant = "Integer"
            /\ value.int > Unwrap(d.max_value).n
         THEN Err(IntegerOutOfRange(value.int))
    ELSE Ok(Parsed("i64", <<>>, value.int, <<>>))

\* variant: an Integer bound is applied to an f64 as well; the f64 values of
\* the model lie strictly between 0 and 1
F64FromOptionAnyBound(value, d, resolved) ==
    IF value.variant # "Number" THEN Err(InvalidType(value.ty))
    ELSE IF IsSome(d.min_value)
            /\ IF Unwrap(d.min_value).variant = "Number"
               THEN value.int < Unwrap(d.min_value).n
               ELSE Unwrap(d.min_value).n >= 1
         THEN Err(NumberOutOfRange(value.int))
    ELSE IF IsSome(d.max_value)
            /\ IF Unwrap(d.max_value).variant = "Number"
               THEN value.int > Unwrap(d.max_value).n
               ELSE Unwrap(d.max_value).n <= 0
         THEN Err(NumberOutOfRange(value.int))
    ELSE Ok(Parsed("f64", <<>>, value.int, <<>>))
\* f64 values are counted in units of 2^-54 above 0.25: NumberValue(k) is
\* 0.25 + k * 2^-54, exactly representable for the small k used here
F64FromOption(value, d, resolved) ==
    IF value.variant # "Number" THEN Err(InvalidType(value.ty))
    ELSE IF IsSome(d.min_value) /\ Unwrap(d.min_value).variant = "Number"
            /\ value.int < Unwrap(d.min_value).n
         THEN Err(NumberOutOfRange(value.int))
    ELSE IF IsSome(d.max_value) /\ Unwrap(d.max_value).variant = "Number"
            /\ value.int > Unwrap(d.max_value).n
         THEN Err(NumberOutOfRange(value.int))
    ELSE Ok(Parsed("f64", <<>>, value.int, <<>>))

\* lookup!(resolved.users, id)
LookupUser(resolved, id) ==
    IF IsSome(resolved) /\ id \in Unwrap(resolved).users
    THEN Ok(Parsed("User", <<>>, id, <<>>))
    ELSE Err(LookupFailed(id))

UserFromOption(value, d, resolved) ==
    IF value.variant # "User" THEN Err(InvalidType(value.ty))
    ELSE LookupUser(resolved, value.int)

\* T::from_option for the base types of the model
FromOption(ty, value, d, resolved) ==
    CASE ty = "String" -> StringFromOption(value, d, resolved)
      [] ty = "i64" -> I64FromOption(value, d, resolved)
      [] ty = "f64" -> F64FromOption(value, d, resolved)
      [] ty = "User" -> UserFromOption(value, d, resolved)

\* impl<T> CommandOption for AutocompleteValue<T>
AutocompleteFromOption(ty, value, d, resolved) ==
    IF value.variant = "Focused" THEN Ok(AutocompleteFocused(value.str))
    ELSE LET parsed == FromOption(ty, value, d, resolved)
         IN  IF parsed.ok THEN Ok(AutocompleteCompleted(Unwrap(parsed.value)))
             ELSE parsed


(***************************************************************************)
(* Declarations: what StructField::from_fields hands to the code emitter.  *)
(* kind is FieldType; ty is the type left after one Option or              *)
(* AutocompleteValue layer was stripped.                                   *)
(***************************************************************************)
FieldAttribute(rename, maxv, minv, maxl, minl) ==
    [rename |-> rename, max_value |-> maxv, min_value |-> minv,
     max_length |-> maxl, min_length |-> minl]
StructField(ident, ty, kind, attributes) ==
    [ident |-> ident, ty |-> ty, kind |-> kind, attributes |-> attributes]
StructModel(autocomplete, fields) ==
    [type |-> "struct", autocomplete |-> autocomplete, fields |-> fields, variants |-> <<>>]
\* subcommand enum: variants are [ident, name, inner]
ParsedVariant(ident, name, inner) == [ident |-> ident, name |-> name, inner |-> inner]
EnumModel(variants) ==
    [type |-> "enum", autocomplete |-> FALSE, fields |-> <<>>, variants |-> variants]

\* FieldAttribute::name_default(ident.to_string())
name_default(attributes, default) ==
    IF IsSome(attributes.rename) THEN Unwrap(attributes.rename) ELSE default

\* the checks impl_command_model makes on the classified fields
AutocompleteCheck(autocomplete, fields) ==
    \A i \in 1..Len(fields) :
        /\ ~(autocomplete /\ fields[i].kind \notin {"Autocomplete", "Optional"})
        /\ ~(~autocomplete /\ fields[i].kind = "Autocomplete")

(***************************************************************************)
(* Generated struct parser (command/model/command_model.rs)                *)
(***************************************************************************)
FieldName(f) == name_default(f.attributes, f.ident)

\* `match &*__opt.name`: position of the first arm whose literal is the
\* name, 0 for the `__other` arm
RECURSIVE FirstArm(_, _, _)
FirstArm(fields, name, i) ==
    IF i > Len(fields) THEN 0
    ELSE IF FieldName(fields[i]) = name THEN i
    ELSE FirstArm(fields, name, i + 1)
\* variant: the arms are the field identifiers, `rename` is ignored
MatchArmByIdent(fields, name) ==
    IF \E i \in 1..Len(fields) : fields[i].ident = name
    THEN CHOOSE i \in 1..Len(fields) : fields[i].ident = name
    ELSE 0
MatchArm(fields, name) == FirstArm(fields, name, 1)

\* the from_option call of field_match_arm; the target type is inferred
\* from the accumulator: T for Required and Optional fields,
\* AutocompleteValue<T> for Autocomplete fields
field_from_option(f, value, resolved) ==
    LET d == CommandOptionData(f.attributes.max_value, f.attributes.min_value,
                               f.attributes.max_length, f.attributes.min_length)
    IN  IF f.kind = "Autocomplete"
        THEN AutocompleteFromOption(f.ty, value, d, resolved)
        ELSE FromOption(f.ty, value, d, resolved)

\* variant: unknown options are skipped whatever the autocomplete flag
field_unknown_lenient(autocomplete, other) == None
\* field_unknown: the `__other =>` arm; None means `continue`
field_unknown(autocomplete, other) ==
    IF autocomplete THEN None
    ELSE Some(Err(ParseOptionError(other, UnknownField)))

\* variant: a field that already holds a value keeps it
field_match_arm_keep_first(fields, k, a, opt, resolved) ==
    LET r == field_from_option(fields[k], opt.value, resolved)
    IN  IF r.ok
        THEN [ret |-> None,
              acc |-> IF IsSome(a[k]) THEN a ELSE [a EXCEPT ![k] = Some(Unwrap(r.value))]]
        ELSE IF Panicked(r) THEN [ret |-> Some(Panic), acc |-> a]
        ELSE [ret |-> Some(Err(ParseOptionError(FieldName(fields[k]), Unwrap(r.err)))),
              acc |-> a]
\* field_match_arm: one iteration of the loop for an option that matched
\* field k.  ret is Some(r) when the function returns r.
field_match_arm(fields, k, a, opt, resolved) ==
    LET r == field_from_option(fields[k], opt.value, resolved)
    IN  IF r.ok THEN [ret |-> None, acc |-> [a EXCEPT ![k] = Some(Unwrap(r.value))]]
        ELSE IF Panicked(r) THEN [ret |-> Some(Panic), acc |-> a]
        ELSE [ret |-> Some(Err(ParseOptionError(FieldName(fields[k]), Unwrap(r.err)))),
              acc |-> a]

\* body of `for __opt in __data.options { match ... }`
LoopBody(m, a, opt, resolved) ==
    LET k == MatchArm(m.fields, opt.name)
    IN  IF k = 0 THEN [ret |-> field_unknown(m.autocomplete, opt.name), acc |-> a]
        ELSE field_match_arm(m.fields, k, a, opt, resolved)

\* field_init
field_init(fields) == [i \in 1..Len(fields) |-> None]

\* variant: the RequiredField error names the option, not the identifier
field_constructor_option_name(f, slot) ==
    CASE f.kind = "Required" ->
            IF IsSome(slot) THEN Ok(Unwrap(slot))
            ELSE Err(ParseOptionError(FieldName(f), RequiredField))
      [] f.kind = "Optional" -> Ok(slot)
      [] f.kind = "Autocomplete" ->
            IF IsSome(slot) THEN Ok(Unwrap(slot)) ELSE Ok(AutocompleteNone)
\* variant: a missing Required field is defaulted like an Autocomplete one
field_constructor_lenient(f, slot) ==
    IF f.kind = "Optional" THEN Ok(slot)
    ELSE IF IsSome(slot) THEN Ok(Unwrap(slot)) ELSE Ok(AutocompleteNone)
\* field_constructor: value of one field of `Self { ... }`, or the error
field_constructor(f, slot) ==
    CASE f.kind = "Required" ->
            IF IsSome(slot) THEN Ok(Unwrap(slot))
            ELSE Err(ParseOptionError(f.ident, RequiredField))
      [] f.kind = "Optional" -> Ok(slot)
      [] f.kind = "Autocomplete" ->
            IF IsSome(slot) THEN Ok(Unwrap(slot)) ELSE Ok(AutocompleteNone)

\* `Ok(Self { #(#fields_constructor),* })`: fields are evaluated in
\* declaration order, the first missing Required field returns
RECURSIVE FirstMissing(_, _, _)
FirstMissing(fields, a, i) ==
    IF i > Len(fields) THEN 0
    ELSE IF ~field_constructor(fields[i], a[i]).ok THEN i
    ELSE FirstMissing(fields, a, i + 1)

Constructor(fields, a) ==
    LET k == FirstMissing(fields, a, 1)
    IN  IF k # 0 THEN field_constructor(fields[k], a[k])
        ELSE Ok([i \in 1..Len(fields) |->
                    [ident |-> fields[i].ident,
                     value |-> Unwrap(field_constructor(fields[i], a[i]).value)]])


(***************************************************************************)
(* from_interaction as a function: the struct parser run to its end, and   *)
(* the generated subcommand (enum) parser, which calls the parser of the   *)
(* variant's inner type (command/subcommand/command_model.rs).             *)
(***************************************************************************)
RECURSIVE RunLoop(_, _, _, _)
RunLoop(m, d, a, i) ==
    IF i > Len(d.options) THEN Constructor(m.fields, a)
    ELSE LET step == LoopBody(m, a, d.options[i], d.resolved)
         IN  IF IsSome(step.ret) THEN Unwrap(step.ret)
             ELSE RunLoop(m, d, step.acc, i + 1)

StructFromInteraction(m, d) == RunLoop(m, d, field_init(m.fields), 1)

\* variant: the resolved table is not handed down to the subcommand
InputFromOptionUnresolved(value, resolved) ==
    IF value.variant \in {"SubCommand", "SubCommandGroup"}
    THEN Ok(CommandInputData(value.options, None))
    ELSE Err(InvalidType(value.ty))
\* CommandInputData::from_option
InputFromOption(value, resolved) ==
    IF value.variant \in {"SubCommand", "SubCommandGroup"}
    THEN Ok(CommandInputData(value.options, resolved))
    ELSE Err(InvalidType(value.ty))

\* Self::#ident(inner)
VariantValue(ident, inner) == [variant |-> ident, inner |-> inner]

\* `match &*__opt.name` over the variants' names: first arm, 0 for `__other`
RECURSIVE FirstVariant(_, _, _)
FirstVariant(variants, name, i) ==
    IF i > Len(variants) THEN 0
    ELSE IF variants[i].name = name THEN i
    ELSE FirstVariant(variants, name, i + 1)

\* variant: the `__other` arm reports an unknown field
subcommand_unknown_field(other) == Err(ParseOptionError(other, UnknownField))
\* the `__other =>` arm of the enum parser
subcommand_unknown(other) == Err(ParseOptionError(other, UnknownSubcommand))

\* variant: no emptiness test, swap_remove(0) panics on an empty list
check_empty_missing(options) == IF options = <<>> THEN Some(Panic) ELSE None
\* `if __data.options.is_empty() { return Err(EmptyOptions) }`
check_empty(options) == IF options = <<>> THEN Some(Err(EmptyOptions)) ELSE None

RECURSIVE FromInteraction(_, _)
\* variant_match_arm: the arm of variant v
variant_match_arm(v, opt, resolved) ==
    LET input == InputFromOption(opt.value, resolved)
    IN  IF ~input.ok THEN Err(ParseOptionError(v.name, Unwrap(input.err)))
        ELSE LET inner == FromInteraction(v.inner, Unwrap(input.value))
             IN  IF inner.ok THEN Ok(VariantValue(v.ident, Unwrap(inner.value)))
                 ELSE inner

\* variant: the option taken off the list is the last one
EnumFromInteractionLast(m, d) ==
    IF IsSome(check_empty(d.options)) THEN Unwrap(check_empty(d.options))
    ELSE LET opt == d.options[Len(d.options)]
             k == FirstVariant(m.variants, opt.name, 1)
         IN  IF k = 0 THEN subcommand_unknown(opt.name)
             ELSE variant_match_arm(m.variants[k], opt, d.resolved)
EnumFromInteraction(m, d) ==
    IF IsSome(check_empty(d.options)) THEN Unwrap(check_empty(d.options))
    ELSE LET opt == d.options[1]    \* __options.swap_remove(0)
             k == FirstVariant(m.variants, opt.name, 1)
         IN  IF k = 0 THEN subcommand_unknown(opt.name)
             ELSE variant_match_arm(m.variants[k], opt, d.resolved)

\* CommandModel::from_interaction of the declared type (Box<T> is T's)
FromInteraction(m, d) ==
    IF m.type = "struct" THEN StructFromInteraction(m, d)
    ELSE EnumFromInteraction(m, d)

(***************************************************************************)
(* Struct parser as a state machine: one step per loop iteration, then the *)
(* constructor.  The declarations are every struct over the fields `text`  *)
(* and `number` (either order; each a String or an i64, bare or wrapped in *)
(* Option or AutocompleteValue, renamed to "msg" or not) that the derive   *)
(* accepts; two fields renamed to the same name are accepted by it too.    *)
(***************************************************************************)
MaxOptions == 2

FieldIdents == {"text", "number"}
BaseTypes == {"String", "i64"}
FieldKinds == {"Required", "Optional", "Autocomplete"}
Renames == {None, Some("msg")}
FieldDecls ==
    { StructField(id, ty, k, FieldAttribute(r, None, None, None, None)) :
        id \in FieldIdents, ty \in BaseTypes, k \in FieldKinds, r \in Renames }
\* a struct's field identifiers are distinct (rustc rejects the rest)
FieldLists ==
    {<<>>}
    \cup { <<f>> : f \in FieldDecls }
    \cup { <<p[1], p[2]>> : p \in { q \in FieldDecls \X FieldDecls : q[1].ident # q[2].ident } }
StructModels == { StructModel(a, fs) : a \in BOOLEAN, fs \in FieldLists }
\* the declarations for which #[derive(CommandModel)] emits code
DerivedStructModels ==
    { m \in StructModels : AutocompleteCheck(m.autocomplete, m.fields) }

OptionNames == {"text", "number", "msg"}
WireValues ==
    { StringValue(<<"a">>), StringValue(<<"b">>), IntegerValue(1),
      FocusedValue(<<"a">>, "String") }
WireOptions == { CommandDataOption(n, v) : n \in OptionNames, v \in WireValues }
RECURSIVE SeqsUpTo(_, _)
SeqsUpTo(S, n) ==
    IF n = 0 THEN {<<>>}
    ELSE LET shorter == SeqsUpTo(S, n - 1)
         IN  shorter \cup { Append(q, x) : q \in { t \in shorter : Len(t) = n - 1 }, x \in S }
OptionLists == SeqsUpTo(WireOptions, MaxOptions)

Init ==
    /\ model \in DerivedStructModels
    /\ data \in { CommandInputData(o, None) : o \in OptionLists }
    /\ pc = "loop"
    /\ idx = 1
    /\ acc = field_init(model.fields)
    /\ result = None
    /\ arg = None
    /\ ret = None

\* one iteration of `for __opt in __data.options`
LoopStep ==
    /\ pc = "loop"
    /\ idx <= Len(data.options)
    /\ LET step == LoopBody(model, acc, data.options[idx], data.resolved)
       IN  IF IsSome(step.ret)
           THEN /\ result' = step.ret
                /\ pc' = "done"
                /\ UNCHANGED <<idx, acc>>
           ELSE /\ acc' = step.acc
                /\ idx' = idx + 1
                /\ UNCHANGED <<pc, result>>
    /\ UNCHANGED <<model, data, arg, ret>>

\* `Ok(Self { ... })` after the loop
Construct ==
    /\ pc = "loop"
    /\ idx > Len(data.options)
    /\ result' = Some(Constructor(model.fields, acc))
    /\ pc' = "done"
    /\ UNCHANGED <<model, data, idx, acc, arg, ret>>

Next == LoopStep \/ Construct

Spec == Init /\ [][Next]_vars


(***************************************************************************)
(* Properties of the struct parser                                         *)
(***************************************************************************)
Fields == model.fields
Options == data.options
Returned == pc = "done" /\ IsSome(result)
Result == Unwrap(result)

\* positions of the options that bear the resolved name of field f
NamedBy(f) == { i \in 1..Len(Options) : Options[i].name = FieldName(f) }
LastNamedBy(f) == CHOOSE i \in NamedBy(f) : \A j \in NamedBy(f) : j <= i
Coerce(f, i) == field_from_option(f, Options[i].value, data.resolved)

EveryNameKnown ==
    \A i \in 1..Len(Options) : \E k \in 1..Len(Fields) : FieldName(Fields[k]) = Options[i].name
EveryCoercionSucceeds ==
    \A i \in 1..Len(Options) : \A k \in 1..Len(Fields) :
        FieldName(Fields[k]) = Options[i].name => Coerce(Fields[k], i).ok
EveryRequiredOccurs ==
    \A k \in 1..Len(Fields) : Fields[k].kind = "Required" => NamedBy(Fields[k]) # {}
DistinctNames ==
    \A k, l \in 1..Len(Fields) : k # l => FieldName(Fields[k]) # FieldName(Fields[l])

\* what the statement of C1 says field k of the struct is
FieldAsStated(k) ==
    LET f == Fields[k]
        v == Result.value[1][k].value
    IN  CASE f.kind = "Required" ->
                v = Unwrap(Coerce(f, LastNamedBy(f)).value)
          [] f.kind = "Optional" ->
                IF NamedBy(f) = {} THEN v = None
                ELSE v = Some(Unwrap(Coerce(f, LastNamedBy(f)).value))
          [] f.kind = "Autocomplete" ->
                NamedBy(f) = {} => v = AutocompleteNone

C1Stated ==
    /\ Result.ok
    /\ \A k \in 1..Len(Fields) : Result.value[1][k].ident = Fields[k].ident /\ FieldAsStated(k)

\* C1 as written: whenever every option name is the resolved name of some
\* field, every coercion succeeds and every Required field occurs, the
\* result is Ok with Required fields set to their coerced value, Optional
\* fields Some(value) or None, and unfilled Autocomplete fields None.
C1_Original ==
    (Returned /\ EveryNameKnown /\ EveryCoercionSucceeds /\ EveryRequiredOccurs)
        => C1Stated

\* C1 (amended): the same, for structs whose fields have pairwise distinct
\* resolved names.
C1_StructParseOk ==
    (Returned /\ DistinctNames /\ EveryNameKnown /\ EveryCoercionSucceeds
        /\ EveryRequiredOccurs)
        => C1Stated

C1_Witness ==
    /\ Returned /\ DistinctNames /\ EveryNameKnown /\ EveryCoercionSucceeds
    /\ EveryRequiredOccurs
    /\ Len(Fields) = 2 /\ Len(Options) = 2
    /\ Fields[1].kind = "Required" /\ Fields[2].kind = "Optional"
    /\ IsSome(Fields[1].attributes.rename)
    /\ NamedBy(Fields[2]) # {}
    /\ Result.ok

\* C2: when the loop consumed the whole list without returning and some
\* Required field has no value, the result is Err(Option) of kind
\* RequiredField whose field is the identifier of a missing Required field,
\* and no struct is produced.
MissingRequired == { k \in 1..Len(Fields) : Fields[k].kind = "Required" /\ acc[k] = None }
C2_RequiredFieldError ==
    (Returned /\ idx > Len(Options) /\ MissingRequired # {})
        => /\ ~Result.ok
           /\ Result.value = None
           /\ \E k \in MissingRequired :
                Result.err = Some(ParseOptionError(Fields[k].ident, RequiredField))

C2_Witness ==
    /\ Returned /\ idx > Len(Options) /\ MissingRequired # {}
    /\ Len(Options) >= 1
    /\ \E k \in 1..Len(Fields) : Fields[k].kind = "Optional" /\ IsSome(acc[k])

\* C3: the loop step on an option whose name matches no field returns
\* Err(UnknownField, that name) when the model is not an autocomplete
\* model, and otherwise skips the option: the accumulators are unchanged
\* and the loop goes on to the next option.
AtUnmatched ==
    /\ pc = "loop" /\ idx <= Len(Options)
    /\ \A k \in 1..Len(Fields) : FieldName(Fields[k]) # Options[idx].name
C3_UnknownField ==
    [][AtUnmatched =>
        IF ~model.autocomplete
        THEN /\ pc' = "done"
             /\ result' = Some(Err(ParseOptionError(Options[idx].name, UnknownField)))
        ELSE /\ pc' = "loop" /\ idx' = idx + 1 /\ acc' = acc /\ result' = None]_vars

C3_Witness ==
    /\ Returned /\ Result.ok /\ model.autocomplete
    /\ Len(Options) = 2
    /\ \A k \in 1..Len(Fields) : FieldName(Fields[k]) # Options[1].name
    /\ \E k \in 1..Len(Fields) : FieldName(Fields[k]) = Options[2].name /\ IsSome(acc[k])


(***************************************************************************)
(* Subcommands: from_interaction called on a declared command type, which  *)
(* is a struct, a subcommand enum over structs, or an enum whose second    *)
(* variant is a subcommand group (an enum again), as in tests/subcommand.rs*)
(* Two variants of an enum may declare the same name.                      *)
(***************************************************************************)
NoAttribute == FieldAttribute(None, None, None, None, None)
UnitCommand == StructModel(FALSE, <<>>)
OptionCommand == StructModel(FALSE, <<StructField("option", "String", "Required", NoAttribute)>>)
UserCommand == StructModel(FALSE, <<StructField("user", "User", "Optional", NoAttribute)>>)
SubStructs == {UnitCommand, OptionCommand, UserCommand}

GroupNames == {<<"two", "three">>, <<"two", "two">>}
GroupEnums ==
    { EnumModel(<<ParsedVariant("Two", n[1], a), ParsedVariant("Three", n[2], b)>>) :
        n \in GroupNames, a \in SubStructs, b \in SubStructs }
CommandNames == {<<"one", "group">>, <<"one", "one">>}
CommandEnums ==
    { EnumModel(<<ParsedVariant("One", n[1], a), ParsedVariant("Group", n[2], g)>>) :
        n \in CommandNames, a \in SubStructs, g \in GroupEnums }
CommandModels == SubStructs \cup GroupEnums \cup CommandEnums

Resolveds == {None, Some([users |-> {1}])}
Trailing == CommandDataOption("zzz", StringValue(<<"a">>))
\* with and without an option after the first one
WithTrailing(S) == S \cup { Append(l, Trailing) : l \in S \ {<<>>} }
StructOptions ==
    { <<>>,
      <<CommandDataOption("option", StringValue(<<"a">>))>>,
      <<CommandDataOption("option", IntegerValue(1))>>,
      <<CommandDataOption("user", UserValue(1))>> }
SubValues(S) ==
    { SubCommandValue(l) : l \in S } \cup { SubCommandGroupValue(l) : l \in S }
    \cup { StringValue(<<"a">>) }
GroupOptions ==
    WithTrailing({<<>>} \cup
        { <<CommandDataOption(n, v)>> :
            n \in {"two", "three", "zzz"}, v \in SubValues(StructOptions) })
CommandOptions ==
    WithTrailing({<<>>} \cup
        { <<CommandDataOption(n, v)>> :
            n \in {"one", "group", "zzz"}, v \in SubValues(StructOptions \cup GroupOptions) })

InitSub ==
    /\ model \in CommandModels
    /\ data \in { CommandInputData(o, r) :
                    o \in StructOptions \cup GroupOptions \cup CommandOptions, r \in Resolveds }
    /\ pc = "call"
    /\ idx = 0
    /\ acc = <<>>
    /\ result = None
    /\ arg = None
    /\ ret = None

\* the whole call, nested calls included
Call ==
    /\ pc = "call"
    /\ result' = Some(FromInteraction(model, data))
    /\ pc' = "done"
    /\ UNCHANGED <<model, data, idx, acc, arg, ret>>

NextSub == Call

SpecSub == InitSub /\ [][NextSub]_vars


(***************************************************************************)
(* Properties of the subcommand parser                                     *)
(***************************************************************************)
IsEnum == model.type = "enum"
FirstIsSubCommand ==
    /\ Options # <<>>
    /\ Options[1].value.variant \in {"SubCommand", "SubCommandGroup"}
NestedInput == CommandInputData(Options[1].value.options, data.resolved)
Wrapped(v, inner) == IF inner.ok THEN Ok(VariantValue(v.ident, Unwrap(inner.value))) ELSE inner

\* C4: when the first option bears the declared name of a variant and its
\* value is a SubCommand or SubCommandGroup list, the result is a variant
\* of that name wrapping what the variant's inner parser returns for the
\* nested list and the same resolved table, or that parser's error as it is.
C4_SubcommandDispatch ==
    (Returned /\ IsEnum /\ FirstIsSubCommand
        /\ \E k \in 1..Len(model.variants) : model.variants[k].name = Options[1].name)
    => \E k \in 1..Len(model.variants) :
            /\ model.variants[k].name = Options[1].name
            /\ Result = Wrapped(model.variants[k],
                                FromInteraction(model.variants[k].inner, NestedInput))

\* a group enum reached through the outer enum, down to a struct that
\* reads the resolved table
C4_Witness ==
    /\ Returned /\ IsEnum /\ FirstIsSubCommand /\ Result.ok
    /\ Options[1].name = "group"
    /\ Unwrap(Result.value).variant = "Group"
    /\ Unwrap(Result.value).inner.variant = "Three"
    /\ Len(Unwrap(Result.value).inner.inner) = 1
    /\ Unwrap(Result.value).inner.inner[1].ident = "user"
    /\ IsSome(Unwrap(Result.value).inner.inner[1].value)

\* C5: a first option whose name is no variant's declared name gives
\* Err(Option{field: that name, kind: UnknownSubcommand}).
NoVariantNamed ==
    /\ Options # <<>>
    /\ \A k \in 1..Len(model.variants) : model.variants[k].name # Options[1].name
C5_UnknownSubcommand ==
    (Returned /\ IsEnum /\ NoVariantNamed)
        => Result = Err(ParseOptionError(Options[1].name, UnknownSubcommand))

C5_Witness ==
    /\ Returned /\ IsEnum /\ NoVariantNamed
    /\ Options[1].name = "two" /\ Len(Options) = 2

\* an enum parser is handed an empty list: the declared enum itself, or the
\* enum of the variant the first option selects, and so on inwards
RECURSIVE ReceivesEmpty(_, _)
ReceivesEmpty(m, opts) ==
    /\ m.type = "enum"
    /\ \/ opts = <<>>
       \/ /\ opts[1].value.variant \in {"SubCommand", "SubCommandGroup"}
          /\ \E k \in 1..Len(m.variants) :
                /\ m.variants[k].name = opts[1].name
                /\ \A j \in 1..(k - 1) : m.variants[j].name # opts[1].name
                /\ ReceivesEmpty(m.variants[k].inner, opts[1].value.options)

\* C6: the result is ParseError::EmptyOptions exactly when an enum parser
\* received an empty option list; a struct parser never returns it, and a
\* struct without Required fields parses the empty list.
C6_EmptyOptions ==
    Returned =>
        /\ (Result = Err(EmptyOptions)) <=> ReceivesEmpty(model, Options)
        /\ model.type = "struct" => Result # Err(EmptyOptions)
        /\ (model.type = "struct" /\ Options = <<>>
                /\ \A k \in 1..Len(Fields) : Fields[k].kind # "Required") => Result.ok

C6_Witness ==
    /\ Returned /\ IsEnum /\ Result = Err(EmptyOptions)
    /\ Options # <<>> /\ Options[1].name = "group"


(***************************************************************************)
(* Choice options: the from_option generated by #[derive(CommandOption)]   *)
(* (option/command_option.rs).  A choice enum is its inferred kind and its *)
(* variants, each an identifier and a literal of that kind.                *)
(***************************************************************************)
MaxVariants == 3

ChoiceString(s) == [kind |-> "String", str |-> s, int |-> 0]
ChoiceInt(n) == [kind |-> "Integer", str |-> <<>>, int |-> n]
ChoiceNumber(k) == [kind |-> "Number", str |-> <<>>, int |-> k]
ChoiceVariant(ident, value) == [ident |-> ident, value |-> value]
ChoiceEnum(kind, variants) == [kind |-> kind, variants |-> variants]

\* f64::EPSILON = 2^-52, in units of 2^-54
F64_EPSILON == 4

Abs(x) == IF x < 0 THEN -x ELSE x

\* i64::to_string
Digits == <<"0", "1", "2", "3", "4", "5", "6", "7", "8", "9">>
RECURSIVE to_string(_)
to_string(n) ==
    IF n < 0 THEN <<"-">> \o to_string(-n)
    ELSE IF n < 10 THEN <<Digits[n + 1]>>
    ELSE to_string(n \div 10) \o <<Digits[(n % 10) + 1]>>

\* parsed_init: the base type the wire value is coerced to
parsed_init(kind) ==
    CASE kind = "String" -> "String"
      [] kind = "Integer" -> "i64"
      [] kind = "Number" -> "f64"

\* variant: a float literal is matched by ==
choice_match_arm_exact(v, parsed) ==
    CASE v.value.kind = "String" -> parsed.str = v.value.str
      [] v.value.kind = "Integer" -> parsed.int = v.value.int
      [] v.value.kind = "Number" -> parsed.int = v.value.int
\* variant_match_arm (option/command_option.rs): does the arm of v match
choice_match_arm(v, parsed) ==
    CASE v.value.kind = "String" -> parsed.str = v.value.str
      [] v.value.kind = "Integer" -> parsed.int = v.value.int
      [] v.value.kind = "Number" -> Abs(parsed.int - v.value.int) < F64_EPSILON

\* the `other =>` arm: InvalidChoice(other.to_string()); the string form of
\* an f64 is kept as the number itself, tagged "f64"
choice_other(kind, parsed) ==
    CASE kind = "String" -> Err(InvalidChoice(parsed.str))
      [] kind = "Integer" -> Err(InvalidChoice(to_string(parsed.int)))
      [] kind = "Number" -> Err(ErrorType("InvalidChoice", "f64", parsed.int, <<>>))

RECURSIVE FirstChoice(_, _, _)
FirstChoice(variants, parsed, i) ==
    IF i > Len(variants) THEN 0
    ELSE IF choice_match_arm(variants[i], parsed) THEN i
    ELSE FirstChoice(variants, parsed, i + 1)

\* the generated CommandOption::from_option of a choice enum
ChoiceFromOption(choice, value, resolved) ==
    LET parsed == FromOption(parsed_init(choice.kind), value, DefaultOptionData, resolved)
    IN  IF ~parsed.ok THEN parsed
        ELSE LET k == FirstChoice(choice.variants, Unwrap(parsed.value), 1)
             IN  IF k = 0 THEN choice_other(choice.kind, Unwrap(parsed.value))
                 ELSE Ok(choice.variants[k].ident)

ChoiceIdents == <<"Minute", "Hour", "Day", "Week">>
ChoiceLiterals(kind) ==
    CASE kind = "String" -> { ChoiceString(<<"a">>), ChoiceString(<<"b">>) }
      [] kind = "Integer" -> { ChoiceInt(60), ChoiceInt(3600), ChoiceInt(86400) }
      [] kind = "Number" -> { ChoiceNumber(0), ChoiceNumber(2), ChoiceNumber(8) }
\* enums ParsedVariant::from_variants accepts: at least one variant, every
\* literal of the kind of the first
ChoiceEnumsOf(kind) ==
    { ChoiceEnum(kind, [i \in 1..Len(ls) |-> ChoiceVariant(ChoiceIdents[i], ls[i])]) :
        ls \in UNION { [1..n -> ChoiceLiterals(kind)] : n \in 1..MaxVariants } }
ChoiceEnums == UNION { ChoiceEnumsOf(kind) : kind \in {"String", "Integer", "Number"} }
ChoiceWireValues ==
    { StringValue(<<"a">>), StringValue(<<"b">>), StringValue(<<"c">>),
      IntegerValue(60), IntegerValue(3600), IntegerValue(7200), IntegerValue(86400),
      IntegerValue(-60), FocusedValue(<<"a">>, "String") }
    \cup { NumberValue(k) : k \in 0..12 }

InitChoice ==
    /\ arg \in { [choice |-> c, value |-> v] : c \in ChoiceEnums, v \in ChoiceWireValues }
    /\ ret = None
    /\ model = <<>> /\ data = <<>> /\ pc = "idle" /\ idx = 0 /\ acc = <<>> /\ result = None

FromOptionChoice ==
    /\ ret = None
    /\ ret' = Some([by |-> "from_option", res |-> ChoiceFromOption(arg.choice, arg.value, None)])
    /\ UNCHANGED <<model, data, pc, idx, acc, result, arg>>

NextChoice == FromOptionChoice

SpecChoice == InitChoice /\ [][NextChoice]_vars

(***************************************************************************)
(* Properties of the derived choice from_option.                           *)
(***************************************************************************)
Called == IsSome(ret)
Res == Unwrap(ret).res

\* the wire kind the inferred base type accepts
WireKind(kind) ==
    CASE kind = "String" -> "String"
      [] kind = "Integer" -> "Integer"
      [] kind = "Number" -> "Number"
Coercible == arg.value.variant = WireKind(arg.choice.kind)

\* the literal of a variant equals the wire value
LiteralEquals(v) ==
    IF arg.choice.kind = "String" THEN v.value.str = arg.value.str
    ELSE v.value.int = arg.value.int
\* the literal of a variant matches the wire value: equality for strings and
\* integers, closer than f64::EPSILON for floats
LiteralMatches(v) ==
    IF arg.choice.kind = "Number"
    THEN arg.value.int - v.value.int < F64_EPSILON /\ v.value.int - arg.value.int < F64_EPSILON
    ELSE LiteralEquals(v)
Variants == { arg.choice.variants[i] : i \in 1..Len(arg.choice.variants) }
IsInvalidChoice == ~Res.ok /\ Unwrap(Res.err).name = "InvalidChoice"
TimeUnit ==
    ChoiceEnum("Integer", << ChoiceVariant("Minute", ChoiceInt(60)),
                             ChoiceVariant("Hour", ChoiceInt(3600)),
                             ChoiceVariant("Day", ChoiceInt(86400)) >>)

\* C7 as stated: a wire value of another kind fails with InvalidType; a
\* variant whose literal equals the value is returned; a value equal to no
\* variant's literal fails with InvalidChoice
C7_Original ==
    Called =>
        /\ ~Coercible => Res = Err(InvalidType(arg.value.ty))
        /\ Coercible /\ (\E v \in Variants : LiteralEquals(v)) =>
               \E v \in Variants : LiteralEquals(v) /\ Res = Ok(v.ident)
        /\ Coercible /\ ~(\E v \in Variants : LiteralEquals(v)) => IsInvalidChoice

\* C7: the derived choice from_option fails with InvalidType on a wire value
\* of another kind than the inferred base type; otherwise it returns the
\* first declared variant whose literal matches the value (equal string,
\* equal integer, float closer than f64::EPSILON), and fails with
\* InvalidChoice carrying the value's string form when no literal matches;
\* with Minute=60, Hour=3600, Day=86400 the value 3600 gives Hour and 7200
\* gives InvalidChoice("7200")
C7_ChoiceFromOption ==
    Called =>
        /\ ~Coercible => Res = Err(InvalidType(arg.value.ty))
        /\ Coercible =>
             \/ \E i \in 1..Len(arg.choice.variants) :
                  /\ LiteralMatches(arg.choice.variants[i])
                  /\ \A j \in 1..(i - 1) : ~LiteralMatches(arg.choice.variants[j])
                  /\ Res = Ok(arg.choice.variants[i].ident)
             \/ /\ \A v \in Variants : ~LiteralMatches(v)
                /\ IsInvalidChoice
                /\ arg.choice.kind = "String" => Unwrap(Res.err).str = arg.value.str
                /\ arg.choice.kind = "Number" => Unwrap(Res.err).int = arg.value.int
        /\ arg.choice = TimeUnit /\ arg.value = IntegerValue(3600) => Res = Ok("Hour")
        /\ arg.choice = TimeUnit /\ arg.value = IntegerValue(7200) =>
               Res = Err(InvalidChoice(<<"7", "2", "0", "0">>))
        /\ arg.choice = TimeUnit /\ arg.value = IntegerValue(-60) =>
               Res = Err(InvalidChoice(<<"-", "6", "0">>))

\* the documented TimeUnit scenario: 3600 has been parsed to Hour
C7_Witness ==
    /\ Called
    /\ arg.choice = TimeUnit
    /\ arg.value = IntegerValue(3600)
    /\ Res = Ok("Hour")

(***************************************************************************)
(* Field ordering check of the CreateCommand derive for structs:           *)
(* check_fields_order of command/model/create_command.rs, whose fields are *)
(* Required, Optional or Autocomplete, and of the earlier                  *)
(* command/create_command.rs, whose fields are Required or Optional.       *)
(***************************************************************************)
MaxFieldCount == 4

\* syn::Error::new(span, message): the message is the sequence of the parts
\* it is formatted from, the span the position of the field (0 elsewhere)
DeriveError(span, message) == [span |-> span, message |-> message]

\* FieldType::required with Autocomplete taken for a required field
required_autocomplete(kind) == kind \in {"Required", "Autocomplete"}
\* FieldType::required
required(kind) == kind = "Required"

\* the loop of check_fields_order from field i on, optional_option_added
\* being the flag on entry of the iteration
RECURSIVE check_fields_order_from(_, _, _, _)
check_fields_order_from(fields, i, optional_option_added, message) ==
    IF i > Len(fields) THEN Ok(<<>>)
    ELSE LET added == optional_option_added \/ ~required(fields[i])
         IN  IF added /\ required(fields[i])
             THEN Err(DeriveError(i, message))
             ELSE check_fields_order_from(fields, i + 1, added, message)

\* command/model/create_command.rs
check_fields_order(fields) ==
    check_fields_order_from(fields, 1, FALSE,
                            <<"required options should be added before optional">>)
\* command/create_command.rs
check_fields_order_command(fields) ==
    check_fields_order_from(fields, 1, FALSE,
                            <<"Required options should be added before optional">>)

FieldTypes == {"Required", "Optional", "Autocomplete"}
FieldTypesCommand == {"Required", "Optional"}
KindLists == SeqsUpTo(FieldTypes, MaxFieldCount)
KindListsCommand == SeqsUpTo(FieldTypesCommand, MaxFieldCount)

InitOrder ==
    /\ arg \in { [revision |-> "model", fields |-> ks] : ks \in KindLists }
           \cup { [revision |-> "command", fields |-> ks] : ks \in KindListsCommand }
    /\ ret = None
    /\ model = <<>> /\ data = <<>> /\ pc = "idle" /\ idx = 0 /\ acc = <<>> /\ result = None

CheckFieldsOrder ==
    /\ ret = None
    /\ arg.revision = "model"
    /\ ret' = Some([by |-> "check_fields_order", res |-> check_fields_order(arg.fields)])
    /\ UNCHANGED <<model, data, pc, idx, acc, result, arg>>

CheckFieldsOrderCommand ==
    /\ ret = None
    /\ arg.revision = "command"
    /\ ret' = Some([by |-> "check_fields_order", res |-> check_fields_order_command(arg.fields)])
    /\ UNCHANGED <<model, data, pc, idx, acc, result, arg>>

NextOrder == CheckFieldsOrder \/ CheckFieldsOrderCommand

SpecOrder == InitOrder /\ [][NextOrder]_vars

(***************************************************************************)
(* Properties of the field ordering check.                                 *)
(***************************************************************************)
\* some field that is not Required is declared before a Required field
Misordered ==
    \E i, j \in 1..Len(arg.fields) :
        i < j /\ arg.fields[i] # "Required" /\ arg.fields[j] = "Required"
\* every Required field precedes every field that is not Required
RequiredFirst ==
    \A i, j \in 1..Len(arg.fields) :
        arg.fields[i] = "Required" /\ arg.fields[j] # "Required" => i < j
OrderingMessage ==
    IF arg.revision = "model" THEN <<"required options should be added before optional">>
    ELSE <<"Required options should be added before optional">>

\* C10: check_fields_order fails, with the error "required options should be
\* added before optional" (its first letter a capital in
\* command/create_command.rs), if and only if some field that is not
\* Required (Optional or Autocomplete) is declared before a Required field;
\* a declaration whose Required fields all precede the others passes
C10_FieldsOrder ==
    Called =>
        /\ ~Res.ok <=> Misordered
        /\ ~Res.ok => Unwrap(Res.err).message = OrderingMessage
        /\ RequiredFirst => Res = Ok(<<>>)

\* an Autocomplete field declared before a Required field has been rejected
C10_Witness ==
    /\ Called
    /\ arg.revision = "model"
    /\ arg.fields = <<"Required", "Autocomplete", "Required">>
    /\ ~Res.ok

(***************************************************************************)
(* Validation of names and descriptions at derive time: parse_name,        *)
(* parse_desc and parse_doc (parse.rs, parse/syntax.rs), CommandName and   *)
(* CommandDescription (parse/parsers.rs).  A string is a sequence of       *)
(* chars; a char is one of the representatives below.                      *)
(***************************************************************************)
MaxNameLen == 33
MaxDescLen == 101

\* "U+0130" is the capital I with a dot above, whose lowercase is the two
\* chars i and U+0307; "U+4E2D" is a CJK ideograph, alphanumeric and caseless
Chars == {"a", "A", "1", "-", "_", " ", "!", "U+0130", "U+4E2D"}

\* char::is_alphanumeric
is_alphanumeric(c) == c \in {"a", "A", "1", "U+0130", "U+4E2D"}
\* char::is_whitespace
is_whitespace(c) == c = " "
\* char::to_lowercase, collected to a string
to_lowercase(c) ==
    CASE c = "A" -> <<"a">>
      [] c = "U+0130" -> <<"i", "U+0307">>
      [] OTHER -> <<c>>

\* str::trim_start, str::trim_end, str::trim
RECURSIVE trim_start(_)
trim_start(s) ==
    IF s # <<>> /\ is_whitespace(Head(s)) THEN trim_start(Tail(s)) ELSE s
RECURSIVE trim_end(_)
trim_end(s) ==
    IF s # <<>> /\ is_whitespace(s[Len(s)]) THEN trim_end(SubSeq(s, 1, Len(s) - 1)) ELSE s
trim(s) == trim_end(trim_start(s))

\* a literal of an attribute: a string, or a literal of another type
LitStr(value) == [kind |-> "Str", value |-> value]
LitBool == [kind |-> "Bool", value |-> <<>>]
\* no doc attribute on the item
NoDoc == [kind |-> "Absent", value |-> <<>>]

\* (in the messages below a quote ' stands for the backquote of the source)

\* AttrValue::parse_string that keeps the surrounding whitespace
parse_string_untrimmed(lit) ==
    IF lit.kind = "Str" THEN Ok(lit.value)
    ELSE Err(DeriveError(0, <<"invalid attribute type, expected string">>))
\* AttrValue::parse_string
parse_string(lit) ==
    IF lit.kind = "Str" THEN Ok(trim(lit.value))
    ELSE Err(DeriveError(0, <<"invalid attribute type, expected string">>))

\* <String as ParseAttribute>::parse_attribute
parse_attribute_string(lit) ==
    IF lit.kind = "Str" THEN Ok(lit.value)
    ELSE Err(DeriveError(0, <<"expected string literal">>))

\* the checks on one char of a name, without the lowercase check
name_char_any_case(c) ==
    IF ~is_alphanumeric(c) /\ c # "-" /\ c # "_"
    THEN Some(<<"name must only contain word characters, found invalid character '", c, "'">>)
    ELSE None
\* the body of the loop over the chars of a name: the message of the error
\* the char raises, if any
name_char(c) ==
    IF ~is_alphanumeric(c) /\ c # "-" /\ c # "_"
    THEN Some(<<"name must only contain word characters, found invalid character '", c, "'">>)
    ELSE IF to_lowercase(c) # <<c>>
    THEN Some(<<"name must be in lowercase, found invalid character '", c, "'">>)
    ELSE None

\* the loop over the chars of a name, from char i on
RECURSIVE name_chars(_, _)
name_chars(value, i) ==
    IF i > Len(value) THEN Ok(value)
    ELSE IF IsSome(name_char(value[i])) THEN Err(DeriveError(0, Unwrap(name_char(value[i]))))
    ELSE name_chars(value, i + 1)

\* parse_name (parse.rs)
parse_name(val) ==
    LET parsed == parse_string(val)
    IN  IF ~parsed.ok THEN parsed
        ELSE IF Len(Unwrap(parsed.value)) \notin 1..32
        THEN Err(DeriveError(0, <<"name must be between 1 and 32 characters">>))
        ELSE name_chars(Unwrap(parsed.value), 1)

\* <CommandName as ParseAttribute>::parse_attribute (parse/parsers.rs)
CommandName(input) ==
    LET spanned == parse_attribute_string(input)
    IN  IF ~spanned.ok THEN spanned
        ELSE LET value == trim(Unwrap(spanned.value))
             IN  IF Len(value) \notin 1..32
                 THEN Err(DeriveError(0, <<"name must be between 1 and 32 characters">>))
                 ELSE name_chars(value, 1)

\* parse_desc (parse.rs)
parse_desc(val) ==
    LET parsed == parse_string(val)
    IN  IF ~parsed.ok THEN parsed
        ELSE IF Len(Unwrap(parsed.value)) \in 1..100 THEN parsed
        ELSE Err(DeriveError(0, <<"description must be between 1 and 100 characters">>))

\* <CommandDescription as ParseAttribute>::parse_attribute (parse/parsers.rs)
CommandDescription(input) ==
    LET spanned == parse_attribute_string(input)
    IN  IF ~spanned.ok THEN spanned
        ELSE LET value == trim(Unwrap(spanned.value))
             IN  IF Len(value) \notin 1..100
                 THEN Err(DeriveError(0, <<"description must be between 1 and 100 characters">>))
                 ELSE Ok(value)

\* parse_doc (parse/syntax.rs) on the first doc attribute of the item
parse_doc(attr) ==
    IF attr.kind = "Absent"
    THEN Err(DeriveError(0, <<"description is required (documentation comment or 'desc' attribute)">>))
    ELSE IF attr.kind # "Str" THEN Err(DeriveError(0, <<"expected string literal">>))
    ELSE LET doc == trim(attr.value)
         IN  IF Len(doc) \in 1..100 THEN Ok(doc)
             ELSE Err(DeriveError(0, <<"description must be between 1 and 100 characters">>))

\* n chars c
Repeat(c, n) == [i \in 1..n |-> c]
\* s with its p-th char replaced by c; s itself when p = 0
Subst(s, p, c) == [i \in 1..Len(s) |-> IF i = p THEN c ELSE s[i]]
\* s between l and r spaces
Pad(l, s, r) == Repeat(" ", l) \o s \o Repeat(" ", r)
Padded(S) == { Pad(l, s, r) : l \in 0..1, s \in S, r \in 0..1 }

\* names: every string of up to two chars, and runs of a lowercase letter of
\* every length up to MaxNameLen with at most one char replaced, each with
\* and without surrounding spaces
NameBodies ==
    SeqsUpTo(Chars, 2)
    \cup UNION { { Subst(Repeat("a", n), p, c) : p \in 0..n, c \in Chars } : n \in 0..MaxNameLen }
NameLits == { LitStr(s) : s \in Padded(NameBodies) } \cup { LitBool }

InitName ==
    /\ arg \in { [by |-> f, lit |-> l] : f \in {"parse_name", "CommandName"}, l \in NameLits }
    /\ ret = None
    /\ model = <<>> /\ data = <<>> /\ pc = "idle" /\ idx = 0 /\ acc = <<>> /\ result = None

ParseName ==
    /\ ret = None
    /\ arg.by = "parse_name"
    /\ ret' = Some([by |-> "parse_name", res |-> parse_name(arg.lit)])
    /\ UNCHANGED <<model, data, pc, idx, acc, result, arg>>

ParseCommandName ==
    /\ ret = None
    /\ arg.by = "CommandName"
    /\ ret' = Some([by |-> "CommandName", res |-> CommandName(arg.lit)])
    /\ UNCHANGED <<model, data, pc, idx, acc, result, arg>>

NextName == ParseName \/ ParseCommandName

SpecName == InitName /\ [][NextName]_vars

\* descriptions: runs of a letter of every length up to MaxDescLen with at
\* most one char near either end replaced by a space or a punctuation mark,
\* each with and without surrounding spaces
DescBodies ==
    UNION { { Subst(Repeat("a", n), p, c) :
                p \in {0, 1, 2, n - 1, n} \cap 0..n, c \in {" ", "!"} } : n \in 0..MaxDescLen }
DescLits == { LitStr(s) : s \in Padded(DescBodies) } \cup { LitBool }

InitDesc ==
    /\ arg \in { [by |-> f, lit |-> l] : f \in {"parse_desc", "CommandDescription"}, l \in DescLits }
           \cup { [by |-> "parse_doc", lit |-> l] : l \in DescLits \cup { NoDoc } }
    /\ ret = None
    /\ model = <<>> /\ data = <<>> /\ pc = "idle" /\ idx = 0 /\ acc = <<>> /\ result = None

ParseDesc ==
    /\ ret = None
    /\ arg.by = "parse_desc"
    /\ ret' = Some([by |-> "parse_desc", res |-> parse_desc(arg.lit)])
    /\ UNCHANGED <<model, data, pc, idx, acc, result, arg>>

ParseCommandDescription ==
    /\ ret = None
    /\ arg.by = "CommandDescription"
    /\ ret' = Some([by |-> "CommandDescription", res |-> CommandDescription(arg.lit)])
    /\ UNCHANGED <<model, data, pc, idx, acc, result, arg>>

ParseDoc ==
    /\ ret = None
    /\ arg.by = "parse_doc"
    /\ ret' = Some([by |-> "parse_doc", res |-> parse_doc(arg.lit)])
    /\ UNCHANGED <<model, data, pc, idx, acc, result, arg>>

NextDesc == ParseDesc \/ ParseCommandDescription \/ ParseDoc

SpecDesc == InitDesc /\ [][NextDesc]_vars

(***************************************************************************)
(* Properties of the validation of names and descriptions.                 *)
(***************************************************************************)
\* the string given, and what is left of it once the whitespace before its
\* first and after its last non-whitespace char is removed
Given == arg.lit.value
Kept == { i \in 1..Len(Given) : ~is_whitespace(Given[i]) }
Trimmed ==
    IF Kept = {} THEN <<>>
    ELSE SubSeq(Given, CHOOSE i \in Kept : \A j \in Kept : i <= j,
                       CHOOSE i \in Kept : \A j \in Kept : j <= i)

LengthClause(t, max) == Len(t) >= 1 /\ Len(t) <= max
WordClause(t) == \A i \in 1..Len(t) : is_alphanumeric(t[i]) \/ t[i] \in {"-", "_"}
LowercaseClause(t) == \A i \in 1..Len(t) : to_lowercase(t[i]) = <<t[i]>>

\* C8: parse_name and CommandName accept a name, returning it trimmed, if and
\* only if its trimmed length is between 1 and 32 chars, every char is
\* alphanumeric or `-` or `_`, and every char equals its own lowercase form;
\* any other name is rejected with an error
C8_NameValidation ==
    Called /\ arg.lit.kind = "Str" =>
        LET t == Trimmed
        IN  /\ Res.ok <=> LengthClause(t, 32) /\ WordClause(t) /\ LowercaseClause(t)
            /\ Res.ok => Res = Ok(t)
            /\ ~Res.ok => Res.err # <<>>

\* a name of 32 chars between spaces has been accepted by CommandName
C8_Witness ==
    /\ Called
    /\ arg.by = "CommandName"
    /\ Len(Given) = 34
    /\ Res.ok
    /\ Len(Unwrap(Res.value)) = 32

\* C9: parse_desc, CommandDescription and parse_doc accept a description,
\* returning it trimmed, if and only if its trimmed length is between 1 and
\* 100 chars; an empty, whitespace-only or longer one is rejected with an
\* error
C9_DescriptionValidation ==
    Called /\ arg.lit.kind = "Str" =>
        LET t == Trimmed
        IN  /\ Res.ok <=> LengthClause(t, 100)
            /\ Res.ok => Res = Ok(t)
            /\ ~Res.ok => Res.err # <<>>

\* a documentation line of 100 chars after a space has been accepted
C9_Witness ==
    /\ Called
    /\ arg.by = "parse_doc"
    /\ Len(Given) = 101
    /\ Res.ok
    /\ Len(Unwrap(Res.value)) = 100

(***************************************************************************)
(* Derive-time parsing of a choice enum: ParsedVariant::from_variants and  *)
(* ChoiceValue::parse (option/parse.rs).  A declared variant is its        *)
(* identifier and the literal of its `value` attribute, of which only the  *)
(* type matters here.                                                      *)
(***************************************************************************)
MaxChoiceVariants == 4

\* syn::Lit: Str, Int, Float, or another literal (Bool)
LitTypes == {"Str", "Int", "Float", "Bool"}
Variant(ident, lit) == [ident |-> ident, lit |-> lit]

\* ChoiceValue::kind of the value parsed from a literal
ChoiceValueKind(lit) ==
    CASE lit = "Str" -> "String"
      [] lit = "Int" -> "Integer"
      [] lit = "Float" -> "Number"

\* ChoiceKind::name
ChoiceKindName(kind) ==
    CASE kind = "String" -> "string"
      [] kind = "Integer" -> "integer"
      [] kind = "Number" -> "float"

\* ChoiceValue::parse without the check against the expected kind
ChoiceValueParseAnyKind(i, lit, kind) ==
    IF lit \notin {"Str", "Int", "Float"}
    THEN Err(DeriveError(i, <<"invalid attribute type, expected string, integer or float">>))
    ELSE Ok(ChoiceValueKind(lit))
\* ChoiceValue::parse of the literal of variant i; kind is the expected
\* kind, None for the first variant; the value is kept as its kind
ChoiceValueParse(i, lit, kind) ==
    IF lit \notin {"Str", "Int", "Float"}
    THEN Err(DeriveError(i, <<"invalid attribute type, expected string, integer or float">>))
    ELSE IF IsSome(kind) /\ ChoiceValueKind(lit) # Unwrap(kind)
    THEN Err(DeriveError(i, <<"invalid attribute type, expected ", ChoiceKindName(Unwrap(kind))>>))
    ELSE Ok(ChoiceValueKind(lit))

\* ParsedVariant::from_variant
from_variant(i, variant, kind) ==
    LET value == ChoiceValueParse(i, variant.lit, kind)
    IN  IF ~value.ok THEN value
        ELSE Ok([ident |-> variant.ident, kind |-> Unwrap(value.value)])

\* the loop over the variants after the first
RECURSIVE from_variants_rest(_, _, _, _)
from_variants_rest(variants, i, parsed, choice_kind) ==
    IF i > Len(variants) THEN Ok([variants |-> parsed, kind |-> choice_kind])
    ELSE LET next == from_variant(i, variants[i], Some(choice_kind))
         IN  IF ~next.ok THEN next
             ELSE from_variants_rest(variants, i + 1, Append(parsed, Unwrap(next.value)), choice_kind)

\* ParsedVariant::from_variants
from_variants(variants) ==
    IF variants = <<>> THEN Err(DeriveError(0, <<"enum must have at least one variant">>))
    ELSE LET first == from_variant(1, variants[1], None)
         IN  IF ~first.ok THEN first
             ELSE from_variants_rest(variants, 2, <<Unwrap(first.value)>>, Unwrap(first.value).kind)

VariantIdents == <<"One", "Two", "Three", "Four", "Five">>
VariantLists ==
    { [i \in 1..Len(ls) |-> Variant(VariantIdents[i], ls[i])] : ls \in SeqsUpTo(LitTypes, MaxChoiceVariants) }

InitVariants ==
    /\ arg \in { [variants |-> vs] : vs \in VariantLists }
    /\ ret = None
    /\ model = <<>> /\ data = <<>> /\ pc = "idle" /\ idx = 0 /\ acc = <<>> /\ result = None

FromVariants ==
    /\ ret = None
    /\ ret' = Some([by |-> "from_variants", res |-> from_variants(arg.variants)])
    /\ UNCHANGED <<model, data, pc, idx, acc, result, arg>>

NextVariants == FromVariants

SpecVariants == InitVariants /\ [][NextVariants]_vars

(***************************************************************************)
(* Properties of the parsing of a choice enum.                             *)
(***************************************************************************)
Declared == arg.variants
\* every declared literal is a string, an integer or a float
LiteralsSupported == \A i \in 1..Len(Declared) : Declared[i].lit \in {"Str", "Int", "Float"}
\* some variant after the first has a literal of another type than the first
LaterKindDiffers == \E i \in 2..Len(Declared) : Declared[i].lit # Declared[1].lit
ExpectedKindError ==
    /\ ~Res.ok
    /\ Len(Unwrap(Res.err).message) = 2
    /\ Unwrap(Res.err).message[1] = "invalid attribute type, expected "

\* C11: from_variants infers the kind from the first variant's literal; for
\* an enum whose literals are all strings, integers or floats it fails, with
\* "invalid attribute type, expected <name of the inferred kind>" at the
\* first differing variant, if and only if some later variant's literal has
\* another kind; that error is never raised otherwise; on success the kind
\* returned is that of the first literal and of every parsed variant
C11_KindInference ==
    Called =>
        /\ LiteralsSupported /\ Declared # <<>> => (~Res.ok <=> LaterKindDiffers)
        /\ LiteralsSupported /\ Declared # <<>> /\ LaterKindDiffers =>
              /\ ExpectedKindError
              /\ Unwrap(Res.err).message[2] = ChoiceKindName(ChoiceValueKind(Declared[1].lit))
              /\ Declared[Unwrap(Res.err).span].lit # Declared[1].lit
              /\ \A j \in 2..(Unwrap(Res.err).span - 1) : Declared[j].lit = Declared[1].lit
        /\ ExpectedKindError => LaterKindDiffers
        /\ Res.ok =>
              /\ Unwrap(Res.value).kind = ChoiceValueKind(Declared[1].lit)
              /\ Len(Unwrap(Res.value).variants) = Len(Declared)
              /\ \A i \in 1..Len(Declared) :
                    /\ Unwrap(Res.value).variants[i].ident = Declared[i].ident
                    /\ Unwrap(Res.value).variants[i].kind = Unwrap(Res.value).kind

\* an integer literal after two string literals has been rejected
C11_Witness ==
    /\ Called
    /\ Len(Declared) = 3
    /\ Declared[1].lit = "Str" /\ Declared[2].lit = "Str" /\ Declared[3].lit = "Int"
    /\ ExpectedKindError
    /\ Unwrap(Res.err).message[2] = "string"

(***************************************************************************)
(* CreateModal derive: impl_create_modal (modal/create_modal.rs) and       *)
(* StructField::from_fields (modal/parse.rs).  A declared field is its     *)
(* identifier, its type (String or Option<String>) and whether it bears a  *)
(* #[modal(...)] attribute; the struct bears a #[modal(...)] attribute     *)
(* with a title, one without, or none.                                     *)
(***************************************************************************)
MaxModalFields == 6

ModalField(ident, ty, modal) == [ident |-> ident, ty |-> ty, modal |-> modal]
ModalInput(fields, attr) == [fields |-> fields, attr |-> attr]

\* StructField::from_field (modal/parse.rs) of the i-th field
modal_from_field(i, field) ==
    IF ~field.modal
    THEN Err(DeriveError(i, <<"expected struct field to have modal attribute">>))
    ELSE Ok([ident |-> field.ident,
             kind |-> IF field.ty = "Option" THEN "Optional" ELSE "Required"])

\* StructField::from_fields: collect() stops at the first error
RECURSIVE modal_from_fields(_, _, _)
modal_from_fields(fields, i, parsed) ==
    IF i > Len(fields) THEN Ok(parsed)
    ELSE LET f == modal_from_field(i, fields[i])
         IN  IF ~f.ok THEN f
             ELSE modal_from_fields(fields, i + 1, Append(parsed, Unwrap(f.value)))

\* the count test with its lower end dropped
capacity_at_most_five(capacity) == capacity <= 5
\* (1..=5).contains(&capacity)
capacity_in_range(capacity) == capacity >= 1 /\ capacity <= 5

\* field_component: the text input generated for a field
field_component(field) == [custom_id |-> field.ident, required |-> field.kind = "Required"]

\* impl_create_modal
impl_create_modal(input) ==
    LET fields == modal_from_fields(input.fields, 1, <<>>)
    IN  IF ~fields.ok THEN fields
        ELSE IF ~capacity_in_range(Len(Unwrap(fields.value)))
        THEN Err(DeriveError(0, <<"modal can have at most five fields">>))
        ELSE IF input.attr = "absent"
        THEN Err(DeriveError(0, <<"missing required #[modal(...)] attribute">>))
        ELSE IF input.attr = "untitled"
        THEN Err(DeriveError(0, <<"missing required attribute 'title'">>))
        ELSE Ok([capacity |-> Len(Unwrap(fields.value)),
                 components |-> [i \in 1..Len(Unwrap(fields.value)) |->
                                    field_component(Unwrap(fields.value)[i])]])

ModalIdents == <<"name", "age", "city", "mail", "note", "link", "more", "last">>
ModalFieldLists ==
    { [i \in 1..Len(fs) |-> ModalField(ModalIdents[i], fs[i][1], fs[i][2])] :
        fs \in SeqsUpTo({"String", "Option"} \X BOOLEAN, MaxModalFields) }
ModalInputs ==
    { ModalInput(fs, a) : fs \in ModalFieldLists, a \in {"absent", "untitled", "titled"} }

InitModal ==
    /\ arg \in ModalInputs
    /\ ret = None
    /\ model = <<>> /\ data = <<>> /\ pc = "idle" /\ idx = 0 /\ acc = <<>> /\ result = None

ImplCreateModal ==
    /\ ret = None
    /\ ret' = Some([by |-> "impl_create_modal", res |-> impl_create_modal(arg)])
    /\ UNCHANGED <<model, data, pc, idx, acc, result, arg>>

NextModal == ImplCreateModal

SpecModal == InitModal /\ [][NextModal]_vars

(***************************************************************************)
(* Properties of the CreateModal derive.                                   *)
(***************************************************************************)
FieldCount == Len(arg.fields)
FieldCountError ==
    ~Res.ok /\ Unwrap(Res.err).message = <<"modal can have at most five fields">>
EveryFieldLabeled == \A i \in 1..FieldCount : arg.fields[i].modal

\* C12: a struct with 1 to 5 fields passes the count check of
\* impl_create_modal (and derives when its attributes are complete); a
\* struct with no field or with 6 or more fields never derives, and fails
\* with the field-count error whenever each of its fields bears its
\* #[modal(...)] attribute
C12_ModalFieldCount ==
    Called =>
        /\ FieldCount >= 1 /\ FieldCount <= 5 => ~FieldCountError
        /\ FieldCount >= 1 /\ FieldCount <= 5 /\ EveryFieldLabeled /\ arg.attr = "titled" =>
               Res.ok /\ Len(Unwrap(Res.value).components) = FieldCount
        /\ FieldCount = 0 \/ FieldCount >= 6 => ~Res.ok
        /\ (FieldCount = 0 \/ FieldCount >= 6) /\ EveryFieldLabeled => FieldCountError

\* a modal of six labeled fields has been rejected for its field count
C12_Witness ==
    /\ Called
    /\ FieldCount = 6
    /\ EveryFieldLabeled
    /\ arg.attr = "titled"
    /\ FieldCountError

(***************************************************************************)
(* CreateCommand derive for structs (command/model/create_command.rs):     *)
(* impl_create_command at derive time, then the create_command it          *)
(* generates, which returns a Result.  A localization attribute is kept as *)
(* the pairs the function it names returns; a description is a string of   *)
(* chars, a name or a locale key a plain string.                           *)
(***************************************************************************)
MaxCreateFields == 2

\* HashMap<String, String>::remove
MapRemove(m, k) == [x \in (DOMAIN m) \ {k} |-> m[x]]

\* internal::convert_localizations: the pairs collected into a HashMap, a
\* later pair replacing an earlier one of the same key
convert_localizations(pairs) ==
    [k \in { pairs[i][1] : i \in 1..Len(pairs) } |->
        LET last == CHOOSE i \in 1..Len(pairs) :
                        /\ pairs[i][1] = k
                        /\ \A j \in (i + 1)..Len(pairs) : pairs[j][1] # k
        IN  pairs[last][2]]

\* localization_field
localization_field(path) ==
    IF IsSome(path) THEN Some(convert_localizations(Unwrap(path))) ELSE None

\* find_attr(attrs, "doc"): the first documentation line, if any
find_doc(raw_attrs) == IF raw_attrs = <<>> THEN NoDoc ELSE raw_attrs[1]

\* the description expression of a command or of a field: `desc`, else the
\* documentation comment when parse_doc accepts it, else None
description_tokens(desc, raw_attrs) ==
    IF IsSome(desc) THEN desc
    ELSE LET doc == parse_doc(find_doc(raw_attrs))
         IN  IF doc.ok THEN Some(Unwrap(doc.value)) ELSE None

\* type and field attributes of #[command(...)] read by the CreateCommand
\* derive; desc is the value parse_desc returned
CreateTypeAttribute(present, autocomplete, name, name_localizations, desc, desc_localizations) ==
    [present |-> present, autocomplete |-> autocomplete, name |-> name,
     name_localizations |-> name_localizations,
     desc |-> desc, desc_localizations |-> desc_localizations]
CreateFieldAttribute(rename, desc, desc_localizations) ==
    [rename |-> rename, max_value |-> None, min_value |-> None,
     max_length |-> None, min_length |-> None,
     desc |-> desc, desc_localizations |-> desc_localizations]
CreateField(ident, ty, kind, attributes, raw_attrs) ==
    [ident |-> ident, ty |-> ty, kind |-> kind, attributes |-> attributes,
     raw_attrs |-> raw_attrs]
CreateInput(attributes, raw_attrs, fields) ==
    [attributes |-> attributes, raw_attrs |-> raw_attrs, fields |-> fields]

\* CommandOptionType of the CreateOption implementation of a type
CommandOptionType(ty) ==
    CASE ty = "String" -> "String"
      [] ty = "i64" -> "Integer"
      [] ty = "f64" -> "Number"
      [] ty = "User" -> "User"

\* CreateOptionData::into_option: the descriptor of an option
into_option(d, kind) ==
    [name |-> d.name, description |-> d.description,
     description_localizations |-> d.description_localizations,
     kind |-> kind, required |-> d.required, options |-> None]

\* field_option at derive time: what the generated statement is built from
field_option_required_always(field) ==
    [name |-> name_default(field.attributes, field.ident),
     description |-> description_tokens(field.attributes.desc, field.raw_attrs),
     description_localizations |-> field.attributes.desc_localizations,
     required |-> TRUE,
     ty |-> field.ty]
field_option(field) ==
    [name |-> name_default(field.attributes, field.ident),
     description |-> description_tokens(field.attributes.desc, field.raw_attrs),
     description_localizations |-> field.attributes.desc_localizations,
     required |-> required(field.kind),
     ty |-> field.ty]

\* variant: `name` and `name_localizations` exclude each other
impl_create_command_exclusive_names(input) ==
    LET order == check_fields_order([i \in 1..Len(input.fields) |-> input.fields[i].kind])
    IN  IF ~order.ok THEN order
        ELSE IF ~input.attributes.present
        THEN Err(DeriveError(0, <<"missing required #[command(...)] attribute">>))
        ELSE IF input.attributes.autocomplete = Some(TRUE)
        THEN Err(DeriveError(0, <<"cannot implement 'CreateCommand' on partial model">>))
        ELSE IF ~IsSome(input.attributes.name)
        THEN Err(DeriveError(0, <<"missing required attribute 'name'">>))
        ELSE IF IsSome(input.attributes.name_localizations)
        THEN Err(DeriveError(0, <<"'name' and 'name_localizations' are mutually exclusive">>))
        ELSE Ok([name |-> Unwrap(input.attributes.name),
                 name_localizations |-> input.attributes.name_localizations,
                 description |-> description_tokens(input.attributes.desc, input.raw_attrs),
                 description_localizations |-> input.attributes.desc_localizations,
                 field_options |-> [i \in 1..Len(input.fields) |-> field_option(input.fields[i])]])
\* impl_create_command at derive time
impl_create_command(input) ==
    LET order == check_fields_order([i \in 1..Len(input.fields) |-> input.fields[i].kind])
    IN  IF ~order.ok THEN order
        ELSE IF ~input.attributes.present
        THEN Err(DeriveError(0, <<"missing required #[command(...)] attribute">>))
        ELSE IF input.attributes.autocomplete = Some(TRUE)
        THEN Err(DeriveError(0, <<"cannot implement 'CreateCommand' on partial model">>))
        ELSE IF ~IsSome(input.attributes.name)
        THEN Err(DeriveError(0, <<"missing required attribute 'name'">>))
        ELSE Ok([name |-> Unwrap(input.attributes.name),
                 name_localizations |-> input.attributes.name_localizations,
                 description |-> description_tokens(input.attributes.desc, input.raw_attrs),
                 description_localizations |-> input.attributes.desc_localizations,
                 field_options |-> [i \in 1..Len(input.fields) |-> field_option(input.fields[i])]])

NoOptionDescription(name) == [type |-> "NoOptionDescription", name |-> name]
NoCommandDescription(name) == [type |-> "NoCommandDescription", name |-> name]

\* the description resolution that ignores the fallback entry of the map
resolve_description_no_fallback(description, path, error) ==
    IF IsSome(description)
    THEN Ok([description |-> Unwrap(description), desc_locales |-> localization_field(path)])
    ELSE Err(error)
\* `let mut desc_locales = ...; let description = match ... { ... };`
resolve_description(description, path, error) ==
    LET desc_locales == localization_field(path)
    IN  IF IsSome(description)
        THEN Ok([description |-> Unwrap(description), desc_locales |-> desc_locales])
        ELSE IF ~IsSome(desc_locales) THEN Err(error)
        ELSE IF "" \notin DOMAIN Unwrap(desc_locales) THEN Err(error)
        ELSE Ok([description |-> Unwrap(desc_locales)[""],
                 desc_locales |-> Some(MapRemove(Unwrap(desc_locales), ""))])

\* the statement generated for one field: Err to return, or the option
\* pushed to command_options
push_option(o) ==
    LET d == resolve_description(o.description, o.description_localizations,
                                 NoOptionDescription(o.name))
    IN  IF ~d.ok THEN d
        ELSE Ok(into_option([name |-> o.name,
                             description |-> Unwrap(d.value).description,
                             description_localizations |-> Unwrap(d.value).desc_locales,
                             required |-> Some(o.required)],
                            CommandOptionType(o.ty)))

RECURSIVE push_options(_, _, _)
push_options(field_options, i, command_options) ==
    IF i > Len(field_options) THEN Ok(command_options)
    ELSE LET o == push_option(field_options[i])
         IN  IF ~o.ok THEN o
             ELSE push_options(field_options, i + 1, Append(command_options, Unwrap(o.value)))

\* the generated create_command of a struct
create_command(impl) ==
    LET command_options == push_options(impl.field_options, 1, <<>>)
    IN  IF ~command_options.ok THEN command_options
        ELSE LET d == resolve_description(impl.description, impl.description_localizations,
                                          NoCommandDescription(impl.name))
             IN  IF ~d.ok THEN d
                 ELSE Ok([name |-> impl.name,
                          name_localizations |-> localization_field(impl.name_localizations),
                          description |-> Unwrap(d.value).description,
                          description_localizations |-> Unwrap(d.value).desc_locales,
                          options |-> Unwrap(command_options.value),
                          group |-> FALSE])

\* a documentation comment of two lines; one whose first line is empty
DocLines == << LitStr(<<" ", "c">>), LitStr(<<" ", "x">>) >>
EmptyDocLines == << LitStr(<<>>), LitStr(<<" ", "x">>) >>
\* what a localization function returns: with and without a fallback entry
WithFallback == << <<"en", <<"e">>>>, <<"", <<"f">>>> >>
WithoutFallback == << <<"en", <<"e">>>> >>

\* <<desc, documentation, desc_localizations>> of a field
FieldSources ==
    { <<None, <<>>, None>>, <<None, DocLines, None>>,
      <<Some(<<"d">>), DocLines, None>>,
      <<None, <<>>, Some(WithFallback)>>, <<None, <<>>, Some(WithoutFallback)>>,
      <<Some(<<"d">>), <<>>, Some(WithFallback)>> }
\* the same of a command
TypeSources ==
    FieldSources
    \cup { <<Some(<<"d">>), <<>>, None>>, <<None, EmptyDocLines, None>>,
           <<None, DocLines, Some(WithFallback)>> }

CreateIdents == <<"text", "number", "user">>
CreateTypes == <<"String", "i64", "User">>
CreateFieldsAt(i) ==
    { CreateField(CreateIdents[i], CreateTypes[i], k, CreateFieldAttribute(r, src[1], src[3]), src[2]) :
        k \in FieldKinds, r \in Renames, src \in FieldSources }
RECURSIVE CreateFieldLists(_)
CreateFieldLists(n) ==
    IF n = 0 THEN {<<>>}
    ELSE LET shorter == CreateFieldLists(n - 1)
         IN  shorter \cup { Append(q, f) : q \in { t \in shorter : Len(t) = n - 1 },
                                            f \in CreateFieldsAt(n) }
\* #[command(...)] with a name, and the three incomplete forms
NamedAttributes ==
    { <<CreateTypeAttribute(TRUE, None, Some("demo"), nl, src[1], src[3]), src[2]>> :
        nl \in {None, Some(WithoutFallback)}, src \in TypeSources }
OtherAttributes ==
    { <<CreateTypeAttribute(FALSE, None, None, None, None, None), DocLines>>,
      <<CreateTypeAttribute(TRUE, Some(TRUE), Some("demo"), None, None, None), DocLines>>,
      <<CreateTypeAttribute(TRUE, None, None, None, None, None), DocLines>> }

InitCreate ==
    /\ \E a \in NamedAttributes \cup OtherAttributes, fs \in CreateFieldLists(MaxCreateFields) :
           arg = CreateInput(a[1], a[2], fs)
    /\ pc = "derive"
    /\ ret = None /\ result = None
    /\ model = <<>> /\ data = <<>> /\ idx = 0 /\ acc = <<>>

\* #[derive(CreateCommand)] on the struct
Derive ==
    /\ pc = "derive"
    /\ LET derived == impl_create_command(arg)
       IN  /\ ret' = Some([by |-> "impl_create_command", res |-> derived])
           /\ model' = IF derived.ok THEN Unwrap(derived.value) ELSE model
           /\ pc' = IF derived.ok THEN "derived" ELSE "rejected"
    /\ UNCHANGED <<data, idx, acc, result, arg>>

\* a call of the generated create_command
CreateCommand ==
    /\ pc = "derived"
    /\ result' = Some(create_command(model))
    /\ pc' = "created"
    /\ UNCHANGED <<model, data, idx, acc, arg, ret>>

NextCreate == Derive \/ CreateCommand

SpecCreate == InitCreate /\ [][NextCreate]_vars

(***************************************************************************)
(* Properties of the derived create_command of a struct.                   *)
(***************************************************************************)
Created == pc = "created"
CreateResult == Unwrap(result)
Schema == Unwrap(CreateResult.value)
Declaration(i) == arg.fields[i]
DeclaredName(i) ==
    IF Declaration(i).attributes.rename # None
    THEN Unwrap(Declaration(i).attributes.rename)
    ELSE Declaration(i).ident

\* C13: a schema returned by the derived create_command of a struct has
\* group = false and exactly one option descriptor per declared field, in
\* declaration order, named by the field's rename (else its identifier),
\* with required = Some(true) for a Required field and Some(false) for any
\* other (Option<T>) field
C13_StructSchema ==
    Created /\ CreateResult.ok =>
        /\ Schema.group = FALSE
        /\ Len(Schema.options) = Len(arg.fields)
        /\ \A i \in 1..Len(arg.fields) :
              /\ Schema.options[i].name = DeclaredName(i)
              /\ Schema.options[i].required = Some(Declaration(i).kind = "Required")
              /\ Declaration(i).kind = "Optional" => Schema.options[i].required = Some(FALSE)
              /\ Schema.options[i].kind = CommandOptionType(Declaration(i).ty)

\* a schema of a renamed Required field followed by an Optional field
C13_Witness ==
    /\ Created
    /\ CreateResult.ok
    /\ Len(arg.fields) = 2
    /\ Declaration(1).kind = "Required" /\ Declaration(1).attributes.rename = Some("msg")
    /\ Declaration(2).kind = "Optional"
    /\ Schema.options[1].name = "msg" /\ Schema.options[1].required = Some(TRUE)
    /\ Schema.options[2].name = "number" /\ Schema.options[2].required = Some(FALSE)

(***************************************************************************)
(* CreateCommand of a subcommand enum.  A variant wraps a command type;    *)
(* what the enum reads of that type is the schema its create_command       *)
(* returns.  The leaf types are those of tests/subcommand.rs, the group    *)
(* types are enums over them.  A localization function is represented by   *)
(* the value it returns.                                                   *)
(***************************************************************************)
MaxVariantCount == 3

ApplicationCommandData(name, name_localizations, description, description_localizations, options, group) ==
    [name |-> name, name_localizations |-> name_localizations,
     description |-> description,
     description_localizations |-> description_localizations,
     options |-> options, group |-> group]

\* DescLocalizations::new(fallback, localizations)
DescLocalizations(fallback, localizations) ==
    [fallback |-> fallback, localizations |-> convert_localizations(localizations)]

\* IntoLocalizationsInternal::into_localizations of a description literal,
\* of a DescLocalizations and of (name, Option<NameLocalizations>)
into_localizations_str(description) == [fallback |-> description, localizations |-> None]
into_localizations_desc(d) ==
    [fallback |-> d.fallback, localizations |-> Some(d.localizations)]
into_localizations_name(name, name_localizations) ==
    [fallback |-> name,
     localizations |-> IF IsSome(name_localizations)
                       THEN Some(convert_localizations(Unwrap(name_localizations)))
                       ELSE None]

\* name_expr, evaluated
name_expr(name, name_localizations) == into_localizations_name(name, name_localizations)

MutuallyExclusive == DeriveError(0, <<"'desc' and 'desc_localizations' are mutually exclusive">>)

\* variant: the documentation comment is preferred to `desc`
description_expr_doc_first(desc, localizations, default) ==
    IF IsSome(desc) /\ IsSome(localizations) THEN Err(MutuallyExclusive)
    ELSE IF IsSome(localizations) THEN Ok(into_localizations_desc(Unwrap(localizations)))
    ELSE IF default.ok THEN Ok(into_localizations_str(Unwrap(default.value)))
    ELSE IF IsSome(desc) THEN Ok(into_localizations_str(Unwrap(desc)))
    ELSE default
\* description_expr, evaluated; default is the result of the closure
description_expr(desc, localizations, default) ==
    IF IsSome(desc) /\ ~IsSome(localizations)
    THEN Ok(into_localizations_str(Unwrap(desc)))
    ELSE IF ~IsSome(desc) /\ IsSome(localizations)
    THEN Ok(into_localizations_desc(Unwrap(localizations)))
    ELSE IF ~IsSome(desc) /\ ~IsSome(localizations)
    THEN IF default.ok THEN Ok(into_localizations_str(Unwrap(default.value))) ELSE default
    ELSE Err(MutuallyExclusive)

\* CreateOptionData { .. } of a nested option, and its builder:
\* builder(kind).options(options).build()
CreateOptionData(name, name_localizations, description, description_localizations, req, autocomplete) ==
    [name |-> name, name_localizations |-> name_localizations,
     description |-> description,
     description_localizations |-> description_localizations,
     required |-> req, autocomplete |-> autocomplete]
builder_options_build(d, kind, options) ==
    [name |-> d.name, name_localizations |-> d.name_localizations,
     description |-> d.description,
     description_localizations |-> d.description_localizations,
     kind |-> kind, required |-> d.required,
     autocomplete |-> Some(d.autocomplete), options |-> Some(options)]

\* variant: every nested option is a SubCommand
CommandOptionFromFlat(item) ==
    builder_options_build(
        CreateOptionData(item.name, item.name_localizations, item.description,
                         item.description_localizations, None, FALSE),
        "SubCommand", item.options)
\* impl From<ApplicationCommandData> for CommandOption
CommandOptionFrom(item) ==
    LET d == CreateOptionData(item.name, item.name_localizations, item.description,
                              item.description_localizations, None, FALSE)
    IN  IF item.group
        THEN builder_options_build(d, "SubCommandGroup", item.options)
        ELSE builder_options_build(d, "SubCommand", item.options)

\* a command type wrapped by a variant: its parser model and the schema its
\* create_command returns
CommandType(m, schema) == [model |-> m, schema |-> schema]
\* a declared variant: attribute is the name of #[command(name = ..)], None
\* when the variant has no #[command] attribute
EnumVariant(ident, attribute, inner) ==
    [ident |-> ident, attribute |-> attribute, inner |-> inner]
EnumInput(attributes, raw_attrs, variants) ==
    [attributes |-> attributes, raw_attrs |-> raw_attrs, variants |-> variants]

\* ParsedVariant::from_variant
subcommand_from_variant(variant) ==
    IF ~IsSome(variant.attribute)
    THEN Err(DeriveError(0, <<"Missing required #[command(..)] attribute">>))
    ELSE Ok(ParsedVariant(variant.ident, Unwrap(variant.attribute), variant.inner))

RECURSIVE subcommand_from_variants_rest(_, _, _)
subcommand_from_variants_rest(variants, i, parsed) ==
    IF i > Len(variants) THEN Ok(parsed)
    ELSE LET v == subcommand_from_variant(variants[i])
         IN  IF ~v.ok THEN v
             ELSE subcommand_from_variants_rest(variants, i + 1, Append(parsed, Unwrap(v.value)))
\* ParsedVariant::from_variants
subcommand_from_variants(variants) ==
    IF variants = <<>>
    THEN Err(DeriveError(0, <<"Enum must have at least one variant">>))
    ELSE subcommand_from_variants_rest(variants, 1, <<>>)

\* variant_option: the option pushed for a variant
variant_option(variant) == CommandOptionFrom(variant.inner.schema)

\* impl_create_command of an enum at derive time
subcommand_impl_create_command(input) ==
    LET variants == subcommand_from_variants(input.variants)
        attributes == input.attributes
    IN  IF ~variants.ok THEN variants
        ELSE IF ~attributes.present
        THEN Err(DeriveError(0, <<"missing required #[command(...)] attribute">>))
        ELSE IF ~IsSome(attributes.name)
        THEN Err(DeriveError(0, <<"Missing required attribute 'name'">>))
        ELSE LET desc_expr == description_expr(attributes.desc, attributes.desc_localizations,
                                               parse_doc(find_doc(input.raw_attrs)))
             IN  IF ~desc_expr.ok THEN desc_expr
                 ELSE Ok([name_expr |-> name_expr(Unwrap(attributes.name), attributes.name_localizations),
                          desc_expr |-> Unwrap(desc_expr.value),
                          variants |-> Unwrap(variants.value)])

\* the generated create_command of an enum
subcommand_create_command(impl) ==
    ApplicationCommandData(
        impl.name_expr.fallback, impl.name_expr.localizations,
        impl.desc_expr.fallback, impl.desc_expr.localizations,
        [i \in 1..Len(impl.variants) |-> variant_option(impl.variants[i])],
        TRUE)

\* the option of CommandOne, CommandTwo and CommandThree
LeafOption ==
    [name |-> "option", name_localizations |-> None,
     description |-> <<"An option">>, description_localizations |-> None,
     kind |-> "String", required |-> Some(TRUE),
     autocomplete |-> Some(FALSE), options |-> None]
LeafType(name, description) ==
    CommandType(OptionCommand,
                ApplicationCommandData(name, None, description, None, <<LeafOption>>, FALSE))
LeafTypes ==
    { LeafType("one", <<"Command one">>), LeafType("two", <<"Command two">>),
      LeafType("three", <<"Command three">>) }

\* the parser's view of the variants: the inner type is its CommandModel
ParserVariants(variants) ==
    [i \in 1..Len(variants) |->
        ParsedVariant(variants[i].ident, variants[i].name, variants[i].inner.model)]

\* the description of a subcommand enum, as subcommand_desc
SubcommandDesc == DescLocalizations(<<"fallback">>, << <<"en", <<"en description">>>> >>)
\* an enum type over two leaf types, derived as the enum under study is
GroupType(a, b) ==
    LET input == EnumInput(
                     CreateTypeAttribute(TRUE, None, Some("group"), None, Some(<<"Command group">>), None),
                     <<>>,
                     <<EnumVariant("Two", Some(a.schema.name), a),
                       EnumVariant("Three", Some(b.schema.name), b)>>)
        impl == Unwrap(subcommand_impl_create_command(input).value)
    IN  CommandType(EnumModel(ParserVariants(impl.variants)), subcommand_create_command(impl))
GroupTypes ==
    { GroupType(LeafType("two", <<"Command two">>), LeafType("three", <<"Command three">>)),
      GroupType(LeafType("three", <<"Command three">>), LeafType("one", <<"Command one">>)) }
CommandTypes == LeafTypes \cup GroupTypes

VariantIdentsOf == <<"One", "Two", "Three", "Four">>
\* the variant at position i: named as its inner command is, named
\* otherwise, or without attribute
VariantsAt(i) ==
    { EnumVariant(VariantIdentsOf[i], a, t) :
        a \in {Some("sub"), None}, t \in CommandTypes }
    \cup { EnumVariant(VariantIdentsOf[i], Some(t.schema.name), t) : t \in CommandTypes }
RECURSIVE EnumVariantLists(_)
EnumVariantLists(n) ==
    IF n = 0 THEN {<<>>}
    ELSE LET shorter == EnumVariantLists(n - 1)
         IN  shorter \cup { Append(q, v) : q \in { t \in shorter : Len(t) = n - 1 },
                                            v \in VariantsAt(n) }
\* <<desc, documentation, desc_localizations>> of the enum
EnumSources ==
    { <<None, <<>>, None>>, <<None, DocLines, None>>, <<None, EmptyDocLines, None>>,
      <<Some(<<"d">>), <<>>, None>>, <<Some(<<"d">>), DocLines, None>>,
      <<None, <<>>, Some(SubcommandDesc)>>, <<None, DocLines, Some(SubcommandDesc)>>,
      <<Some(<<"d">>), <<>>, Some(SubcommandDesc)>> }
EnumAttributes ==
    { <<CreateTypeAttribute(TRUE, None, Some("command"), nl, src[1], src[3]), src[2]>> :
        nl \in {None, Some(WithoutFallback)}, src \in EnumSources }
    \cup { <<CreateTypeAttribute(FALSE, None, None, None, None, None), DocLines>>,
           <<CreateTypeAttribute(TRUE, None, None, None, None, None), DocLines>> }

InitEnumCreate ==
    /\ \E a \in EnumAttributes, vs \in EnumVariantLists(MaxVariantCount) :
           arg = EnumInput(a[1], a[2], vs)
    /\ pc = "derive"
    /\ ret = None /\ result = None
    /\ model = <<>> /\ data = <<>> /\ idx = 0 /\ acc = <<>>

\* #[derive(CreateCommand)] on the enum
DeriveEnum ==
    /\ pc = "derive"
    /\ LET derived == subcommand_impl_create_command(arg)
       IN  /\ ret' = Some([by |-> "impl_create_command", res |-> derived])
           /\ model' = IF derived.ok THEN Unwrap(derived.value) ELSE model
           /\ pc' = IF derived.ok THEN "derived" ELSE "rejected"
    /\ UNCHANGED <<data, idx, acc, result, arg>>

\* a call of the generated create_command
CreateEnumCommand ==
    /\ pc = "derived"
    /\ result' = Some(subcommand_create_command(model))
    /\ pc' = "created"
    /\ UNCHANGED <<model, data, idx, acc, arg, ret>>

NextEnumCreate == DeriveEnum \/ CreateEnumCommand

SpecEnumCreate == InitEnumCreate /\ [][NextEnumCreate]_vars

(***************************************************************************)
(* Properties of the derived create_command of an enum.                    *)
(***************************************************************************)
EnumSchema == Unwrap(result)
Inner(i) == arg.variants[i].inner.schema
NestedKind(i) == IF Inner(i).group THEN "SubCommandGroup" ELSE "SubCommand"

\* C14: the schema returned by the derived create_command of an enum has
\* group = true and one option per variant, in declaration order; the option
\* of a variant is a SubCommandGroup if the schema of the variant's inner
\* type has group = true and a SubCommand otherwise, it carries that
\* schema's name, description and option list, and its required is None
C14_EnumSchema ==
    Created =>
        /\ EnumSchema.group = TRUE
        /\ Len(EnumSchema.options) = Len(arg.variants)
        /\ \A i \in 1..Len(arg.variants) :
              /\ EnumSchema.options[i].kind = NestedKind(i)
              /\ EnumSchema.options[i].name = Inner(i).name
              /\ EnumSchema.options[i].description = Inner(i).description
              /\ EnumSchema.options[i].options = Some(Inner(i).options)
              /\ EnumSchema.options[i].required = None

\* the schema of an enum of a leaf command followed by a group
C14_Witness ==
    /\ Created
    /\ Len(arg.variants) = 2
    /\ ~Inner(1).group /\ Inner(2).group
    /\ EnumSchema.group
    /\ EnumSchema.options[1].kind = "SubCommand" /\ EnumSchema.options[1].name = "one"
    /\ EnumSchema.options[2].kind = "SubCommandGroup" /\ EnumSchema.options[2].name = "group"
    /\ Len(Unwrap(EnumSchema.options[2].options)) = 2

(***************************************************************************)
(* The description of a command or of a field, as description_expr and     *)
(* get_description resolve it at derive time from `desc`, from             *)
(* `desc_localizations` and from the documentation comment.                *)
(***************************************************************************)
MaxDocLines == 2

\* get_description: (description, localizations)
get_description(desc_localizations, desc, attrs) ==
    IF IsSome(desc) /\ IsSome(desc_localizations)
    THEN Err(DeriveError(0, <<"You can't specify 'desc' and 'desc_localizations'.">>))
    ELSE IF IsSome(desc_localizations)
    THEN Ok([fallback |-> Unwrap(desc_localizations).fallback,
             localizations |-> Some(Unwrap(desc_localizations).localizations)])
    ELSE IF IsSome(desc) THEN Ok([fallback |-> Unwrap(desc), localizations |-> None])
    ELSE LET doc == parse_doc(find_doc(attrs))
         IN  IF doc.ok THEN Ok([fallback |-> Unwrap(doc.value), localizations |-> None])
             ELSE doc

\* lines of a documentation comment: empty, blank, of 100 and of 101 chars,
\* and short ones with and without surrounding spaces
DocLineLits ==
    { LitStr(s) : s \in { <<>>, <<" ">>, <<" ", "c">>, <<"c", " ">>, <<" ", "x", " ">>,
                          Repeat("a", 100), <<" ">> \o Repeat("a", 100), Repeat("a", 101) } }
DocComments == SeqsUpTo(DocLineLits, MaxDocLines)
DescValues == { None, Some(<<"d">>), Some(<<"c">>) }
LocalizationValues == { None, Some(SubcommandDesc) }

InitDescription ==
    /\ arg \in { [by |-> f, desc |-> d, localizations |-> l, attrs |-> a] :
                    f \in {"description_expr", "get_description"},
                    d \in DescValues, l \in LocalizationValues, a \in DocComments }
    /\ ret = None
    /\ model = <<>> /\ data = <<>> /\ pc = "idle" /\ idx = 0 /\ acc = <<>> /\ result = None

DescriptionExpr ==
    /\ ret = None
    /\ arg.by = "description_expr"
    /\ ret' = Some([by |-> "description_expr",
                    res |-> description_expr(arg.desc, arg.localizations,
                                             parse_doc(find_doc(arg.attrs)))])
    /\ UNCHANGED <<model, data, pc, idx, acc, result, arg>>

GetDescription ==
    /\ ret = None
    /\ arg.by = "get_description"
    /\ ret' = Some([by |-> "get_description",
                    res |-> get_description(arg.localizations, arg.desc, arg.attrs)])
    /\ UNCHANGED <<model, data, pc, idx, acc, result, arg>>

NextDescription == DescriptionExpr \/ GetDescription

SpecDescription == InitDescription /\ [][NextDescription]_vars

(***************************************************************************)
(* Properties of the description resolved at derive time.                  *)
(***************************************************************************)
Documented == arg.attrs # <<>>
FirstLine == trim(arg.attrs[1].value)
Described == Unwrap(Res.value).fallback

\* C15: with no localization function, description_expr and get_description
\* use `desc` whenever it is given, documented or not; without `desc` they
\* use the trimmed first line of the documentation comment, whatever the
\* later lines are, and fail when that line is not of 1 to 100 characters;
\* with neither `desc` nor a documentation comment they fail
C15_DescriptionPrecedence ==
    Called /\ arg.localizations = None =>
        /\ IsSome(arg.desc) => Res.ok /\ Described = Unwrap(arg.desc)
        /\ ~IsSome(arg.desc) /\ Documented =>
              IF Len(FirstLine) \in 1..100 THEN Res.ok /\ Described = FirstLine
              ELSE ~Res.ok
        /\ ~IsSome(arg.desc) /\ ~Documented => ~Res.ok

\* `desc` used in spite of a documentation comment whose first line differs
C15_Witness ==
    /\ Called
    /\ arg.localizations = None
    /\ arg.desc = Some(<<"d">>)
    /\ Len(arg.attrs) = 2 /\ FirstLine = <<"c">>
    /\ Res.ok /\ Described = <<"d">>

(***************************************************************************)
(* Properties of the attributes given together, on the struct derive.      *)
(***************************************************************************)
BothDescriptions(attributes) == IsSome(attributes.desc) /\ IsSome(attributes.desc_localizations)
DescriptionGivenTwice ==
    \/ BothDescriptions(arg.attributes)
    \/ \E i \in 1..Len(arg.fields) : BothDescriptions(arg.fields[i].attributes)

\* C16: a derive on a type that gives both `desc` and `desc_localizations`,
\* on the type or on one of its fields, fails
C16_MutuallyExclusive ==
    Called /\ DescriptionGivenTwice => ~Res.ok

NameGivenTwice == IsSome(arg.attributes.name) /\ IsSome(arg.attributes.name_localizations)
WithoutNameLocalizations ==
    [arg EXCEPT !.attributes = [arg.attributes EXCEPT !.name_localizations = None]]

\* C17 as stated: a derive on a type that gives both `name` and
\* `name_localizations` fails
C17_Original ==
    Called /\ NameGivenTwice => ~Res.ok

\* C17: `name` and `name_localizations` given together are both used: the
\* derive succeeds exactly when it does without `name_localizations`, and a
\* schema then built has the given name and, as name_localizations, the map
\* of what the function returns
C17_NameWithLocalizations ==
    NameGivenTwice =>
        /\ Called => (Res.ok <=> impl_create_command(WithoutNameLocalizations).ok)
        /\ Created /\ CreateResult.ok =>
              /\ Schema.name = Unwrap(arg.attributes.name)
              /\ Schema.name_localizations
                    = Some(convert_localizations(Unwrap(arg.attributes.name_localizations)))

\* the schema of a command named "demo" whose names are localized
C17_Witness ==
    /\ Created
    /\ CreateResult.ok
    /\ NameGivenTwice
    /\ Schema.name = "demo"
    /\ IsSome(Schema.name_localizations)
    /\ Unwrap(Schema.name_localizations)["en"] = <<"e">>

(***************************************************************************)
(* Properties of the description resolved when the schema is built.        *)
(***************************************************************************)
\* neither `desc` nor a documentation comment the derive could read
NoSource(attributes, raw_attrs) ==
    ~IsSome(attributes.desc) /\ ~parse_doc(find_doc(raw_attrs)).ok
LocalizationMap(attributes) == convert_localizations(Unwrap(attributes.desc_localizations))
HasFallback(attributes) ==
    IsSome(attributes.desc_localizations) /\ "" \in DOMAIN LocalizationMap(attributes)
Unresolved(attributes, raw_attrs) == NoSource(attributes, raw_attrs) /\ ~HasFallback(attributes)
UnresolvedOptions ==
    { i \in 1..Len(arg.fields) : Unresolved(Declaration(i).attributes, Declaration(i).raw_attrs) }
FirstUnresolved == CHOOSE i \in UnresolvedOptions : \A j \in UnresolvedOptions : i <= j
\* o is described by the fallback entry of the map, which it no longer emits
FromFallback(o, attributes) ==
    /\ o.description = LocalizationMap(attributes)[""]
    /\ o.description_localizations = Some(MapRemove(LocalizationMap(attributes), ""))
    /\ "" \notin DOMAIN Unwrap(o.description_localizations)

\* C18: create_command of the revision returning a Result describes a
\* command or an option that has neither `desc` nor a documentation comment
\* by the entry under "" of its description-localization map, and emits the
\* map without that entry; when the map is absent or has no "" entry it
\* builds no schema and returns NoOptionDescription(name) for the first such
\* option, or NoCommandDescription(name) when the command is the only such
\* item
C18_RuntimeDescription ==
    Created =>
        IF UnresolvedOptions # {}
        THEN CreateResult = Err(NoOptionDescription(DeclaredName(FirstUnresolved)))
        ELSE IF Unresolved(arg.attributes, arg.raw_attrs)
        THEN CreateResult = Err(NoCommandDescription(Unwrap(arg.attributes.name)))
        ELSE /\ CreateResult.ok
             /\ NoSource(arg.attributes, arg.raw_attrs) => FromFallback(Schema, arg.attributes)
             /\ \A i \in 1..Len(arg.fields) :
                   NoSource(Declaration(i).attributes, Declaration(i).raw_attrs)
                       => FromFallback(Schema.options[i], Declaration(i).attributes)

\* an option without `desc` and documentation, described by the fallback
\* entry of its localization function
C18_Witness ==
    /\ Created
    /\ CreateResult.ok
    /\ Len(arg.fields) = 1
    /\ Declaration(1).attributes.desc = None /\ Declaration(1).raw_attrs = <<>>
    /\ Declaration(1).attributes.desc_localizations = Some(WithFallback)
    /\ Schema.options[1].description = <<"f">>
    /\ DOMAIN Unwrap(Schema.options[1].description_localizations) = {"en"}

(***************************************************************************)
(* The schema of an enum handed back to its parser: after create_command,  *)
(* an option list is built from one option of the schema, named and nested *)
(* as the schema says, and parsed by from_interaction of the same enum.    *)
(***************************************************************************)
RECURSIVE BuiltValues(_)
\* the wire values an option of the schema describes: a string for a String
\* option, every option of a subcommand, one subcommand of a group
BuiltValues(option) ==
    IF option.kind = "String" THEN { StringValue(<<"a">>) }
    ELSE LET nested == Unwrap(option.options)
         IN  IF option.kind = "SubCommand"
             THEN { SubCommandValue(
                        [j \in 1..Len(nested) |->
                            CommandDataOption(nested[j].name,
                                              CHOOSE v \in BuiltValues(nested[j]) : TRUE)]) }
             ELSE UNION { { SubCommandGroupValue(<<CommandDataOption(nested[j].name, v)>>) :
                              v \in BuiltValues(nested[j]) } : j \in 1..Len(nested) }

InitRoundTrip == InitEnumCreate

\* from_interaction of the enum on an option list built from its schema
ParseBuilt ==
    /\ pc = "created"
    /\ \E i \in 1..Len(Unwrap(result).options) :
           \E v \in BuiltValues(Unwrap(result).options[i]) :
               LET built == CommandInputData(
                                <<CommandDataOption(Unwrap(result).options[i].name, v)>>, None)
               IN  /\ data' = built
                   /\ idx' = i
                   /\ acc' = Some(EnumFromInteraction(EnumModel(ParserVariants(model.variants)), built))
    /\ pc' = "parsed"
    /\ UNCHANGED <<model, result, arg, ret>>

NextRoundTrip == DeriveEnum \/ CreateEnumCommand \/ ParseBuilt

SpecRoundTrip == InitRoundTrip /\ [][NextRoundTrip]_vars

(***************************************************************************)
(* Properties of the names shared by the schema and the parser.            *)
(***************************************************************************)
ParsedBack == pc = "parsed"
Unknown(r) ==
    /\ ~r.ok
    /\ Unwrap(r.err).type = "Option"
    /\ Unwrap(r.err).kind \in {UnknownField, UnknownSubcommand}

\* C19: the option the schema of an enum emits for a variant has the name
\* the enum's parser matches to select that variant, and an option list
\* built from the schema's names is not rejected as UnknownField or
\* UnknownSubcommand
C19_NameRoundTrip ==
    ParsedBack =>
        /\ Unwrap(result).options[idx].name = model.variants[idx].name
        /\ ~Unknown(Unwrap(acc))

(***************************************************************************)
(* i64::from_option on its own, over wire values and bounds around zero.   *)
(***************************************************************************)
MaxBound == 2

BoundValues ==
    { None } \cup { Some(IntegerBound(n)) : n \in -MaxBound..MaxBound }
             \cup { Some(NumberBound(0)) }
BoundedWireValues ==
    { IntegerValue(n) : n \in (-MaxBound - 1)..(MaxBound + 1) }
    \cup { StringValue(<<"a">>), NumberValue(0) }

InitBounds ==
    /\ arg \in { [value |-> v, data |-> CommandOptionData(maxv, minv, None, None)] :
                    v \in BoundedWireValues, maxv \in BoundValues, minv \in BoundValues }
    /\ ret = None
    /\ model = <<>> /\ data = <<>> /\ pc = "idle" /\ idx = 0 /\ acc = <<>> /\ result = None

\* <i64 as CommandOption>::from_option(value, data, None)
I64Call ==
    /\ ret = None
    /\ ret' = Some([by |-> "i64::from_option", res |-> I64FromOption(arg.value, arg.data, None)])
    /\ UNCHANGED <<model, data, pc, idx, acc, result, arg>>

NextBounds == I64Call

SpecBounds == InitBounds /\ [][NextBounds]_vars

(***************************************************************************)
(* Properties of the bounds of an integer option.                          *)
(***************************************************************************)
IntegerBoundOf(b) == IsSome(b) /\ Unwrap(b).variant = "Integer"
BelowMin == IntegerBoundOf(arg.data.min_value) /\ arg.value.int < Unwrap(arg.data.min_value).n
AboveMax == IntegerBoundOf(arg.data.max_value) /\ arg.value.int > Unwrap(arg.data.max_value).n

\* C20: for an integer wire value, i64::from_option returns
\* IntegerOutOfRange(value) exactly when the value is below an integer
\* min_value or above an integer max_value, and returns the value otherwise:
\* a value equal to a bound is not out of range by that bound, and without
\* bounds every integer is accepted
C20_IntegerBounds ==
    Called /\ arg.value.variant = "Integer" =>
        /\ Res = Err(IntegerOutOfRange(arg.value.int)) <=> BelowMin \/ AboveMax
        /\ ~(BelowMin \/ AboveMax) => Res.ok /\ Unwrap(Res.value).int = arg.value.int
        /\ arg.data.min_value = Some(IntegerBound(arg.value.int)) /\ ~AboveMax => Res.ok
        /\ arg.data.max_value = Some(IntegerBound(arg.value.int)) /\ ~BelowMin => Res.ok
        /\ arg.data.min_value = None /\ arg.data.max_value = None => Res.ok

\* a value accepted at its maximum, between integer bounds
C20_Witness ==
    /\ Called
    /\ arg.value = IntegerValue(2)
    /\ arg.data.min_value = Some(IntegerBound(-1))
    /\ arg.data.max_value = Some(IntegerBound(2))
    /\ Res.ok /\ Unwrap(Res.value).int = 2

(***************************************************************************)
(* String::from_option on its own, over strings of up to MaxStrLen chars   *)
(* and length bounds in the same range.                                    *)
(***************************************************************************)
MaxStrLen == 3

LengthBounds == { None } \cup { Some(n) : n \in 0..MaxStrLen }
LengthWireValues ==
    { StringValue(Repeat("a", n)) : n \in 0..(MaxStrLen + 1) }
    \cup { IntegerValue(1), NumberValue(0) }

InitLength ==
    /\ arg \in { [value |-> v, data |-> CommandOptionData(None, None, maxl, minl)] :
                    v \in LengthWireValues, maxl \in LengthBounds, minl \in LengthBounds }
    /\ ret = None
    /\ model = <<>> /\ data = <<>> /\ pc = "idle" /\ idx = 0 /\ acc = <<>> /\ result = None

\* <String as CommandOption>::from_option(value, data, None)
StringCall ==
    /\ ret = None
    /\ ret' = Some([by |-> "String::from_option",
                    res |-> StringFromOption(arg.value, arg.data, None)])
    /\ UNCHANGED <<model, data, pc, idx, acc, result, arg>>

NextLength == StringCall

SpecLength == InitLength /\ [][NextLength]_vars

(***************************************************************************)
(* Properties of the length bounds of a string option.                     *)
(***************************************************************************)
TooShort == IsSome(arg.data.min_length) /\ Len(arg.value.str) < Unwrap(arg.data.min_length)
TooLong == IsSome(arg.data.max_length) /\ Len(arg.value.str) > Unwrap(arg.data.max_length)

\* C21: String::from_option on a string shorter than min_length or longer
\* than max_length returns an error value (the call returns, it does not
\* panic); on a string within the bounds it returns the string unchanged
C21_StringLength ==
    Called /\ arg.value.variant = "String" =>
        IF TooShort \/ TooLong
        THEN ~Res.ok /\ ~Panicked(Res)
        ELSE Res.ok /\ Unwrap(Res.value).str = arg.value.str

(***************************************************************************)
(* The struct parser on declarations with a length bound: the field `text` *)
(* is a String, bare or in Option, renamed or not, with or without         *)
(* min_length = 2; the field `number` is an i64.  The steps are those of   *)
(* the parser above.                                                       *)
(***************************************************************************)
MaxListLen == 2

TextFields ==
    { StructField("text", "String", k, FieldAttribute(r, None, None, None, minl)) :
        k \in {"Required", "Optional"}, r \in Renames, minl \in {None, Some(2)} }
NumberFields ==
    { StructField("number", "i64", k, NoAttribute) : k \in {"Required", "Optional"} }
BoundedStructModels ==
    { m \in { StructModel(a, fs) :
                a \in BOOLEAN,
                fs \in { <<t>> : t \in TextFields }
                       \cup { <<t, n>> : t \in TextFields, n \in NumberFields }
                       \cup { <<n, t>> : n \in NumberFields, t \in TextFields } } :
        AutocompleteCheck(m.autocomplete, m.fields) }
BoundedWireOptions ==
    { CommandDataOption(n, v) :
        n \in {"text", "msg", "number", "zzz"},
        v \in { StringValue(<<"a">>), StringValue(<<"a", "b">>), IntegerValue(1) } }

InitBoundedStruct ==
    /\ model \in BoundedStructModels
    /\ data \in { CommandInputData(o, None) : o \in SeqsUpTo(BoundedWireOptions, MaxListLen) }
    /\ pc = "loop"
    /\ idx = 1
    /\ acc = field_init(model.fields)
    /\ result = None
    /\ arg = None
    /\ ret = None

NextBoundedStruct == LoopStep \/ Construct

SpecBoundedStruct == InitBoundedStruct /\ [][NextBoundedStruct]_vars

(***************************************************************************)
(* Properties of the order in which the struct parser fails.               *)
(***************************************************************************)
\* the fields whose resolved name is the name of option i; the parser's
\* match takes the first
Matching(i) == { k \in 1..Len(Fields) : FieldName(Fields[k]) = Options[i].name }
Matched(i) == CHOOSE k \in Matching(i) : \A l \in Matching(i) : k <= l
UnknownAt(i) == Matching(i) = {} /\ ~model.autocomplete
IllTypedAt(i) == Matching(i) # {} /\ ~Coerce(Fields[Matched(i)], i).ok
FailingOptions == { i \in 1..Len(Options) : UnknownAt(i) \/ IllTypedAt(i) }
FirstFailing == CHOOSE i \in FailingOptions : \A j \in FailingOptions : i <= j
ErrorOf(i) ==
    IF UnknownAt(i) THEN <<UnknownField>> ELSE Coerce(Fields[Matched(i)], i).err

\* C22: the struct parser never looks beyond the first option that is
\* unknown (in a non-autocomplete model) or whose coercion fails; that option
\* decides the error returned, which carries the option's name; the
\* RequiredField test is made only on a list consumed without error
C22_FailFast ==
    /\ FailingOptions # {} => idx <= FirstFailing
    /\ Returned =>
          IF FailingOptions # {}
          THEN /\ ~Result.ok
               /\ IsSome(Result.err)
               /\ Unwrap(Result.err).field = Options[FirstFailing].name
               /\ <<Unwrap(Result.err).kind>> = ErrorOf(FirstFailing)
          ELSE idx > Len(Options)

(***************************************************************************)
(* ModalModel derive: the from_interaction generated by impl_modal_model   *)
(* (modal/modal_model.rs).  A field is its identifier, its custom_id       *)
(* attribute and its kind; a submitted component is its custom_id and its  *)
(* value, an Option<String>; the data are action rows of components.       *)
(***************************************************************************)
MaxRows == 2

ModalStructField(ident, custom_id, kind) ==
    [ident |-> ident, custom_id |-> custom_id, kind |-> kind]
ModalComponent(custom_id, value) == [custom_id |-> custom_id, value |-> value]

\* FieldAttribute::custom_id_default
custom_id_default(field) ==
    IF IsSome(field.custom_id) THEN Unwrap(field.custom_id) ELSE field.ident

\* __data.components.into_iter().flat_map(|action_row| action_row.components)
RECURSIVE flat_map(_)
flat_map(rows) ==
    IF rows = <<>> THEN <<>> ELSE Head(rows) \o flat_map(Tail(rows))

\* the first arm of the match whose pattern is the custom_id, 0 for `__other`
RECURSIVE ModalFirstArm(_, _, _)
ModalFirstArm(fields, custom_id, i) ==
    IF i > Len(fields) THEN 0
    ELSE IF custom_id_default(fields[i]) = custom_id THEN i
    ELSE ModalFirstArm(fields, custom_id, i + 1)

\* field_unknown
modal_field_unknown(other) == Err(ParseOptionError(other, UnknownField))

\* the match with an `__other` arm that does nothing
modal_match_skipping(fields, component, a) ==
    LET k == ModalFirstArm(fields, component.custom_id, 1)
    IN  IF k = 0 THEN [ret |-> None, acc |-> a]
        ELSE [ret |-> None, acc |-> [a EXCEPT ![k] = component.value]]
\* the body of the loop: field_match_arm assigns the component's value to
\* the field's variable, `__other` returns
modal_match(fields, component, a) ==
    LET k == ModalFirstArm(fields, component.custom_id, 1)
    IN  IF k = 0 THEN [ret |-> Some(modal_field_unknown(component.custom_id)), acc |-> a]
        ELSE [ret |-> None, acc |-> [a EXCEPT ![k] = component.value]]

\* field_constructor
modal_field_constructor(field, slot) ==
    IF field.kind = "Required"
    THEN IF IsSome(slot) THEN Ok(Unwrap(slot))
         ELSE Err(ParseOptionError(field.ident, RequiredField))
    ELSE Ok(slot)

\* Ok(Self { constructors }): the first constructor that returns decides
RECURSIVE modal_construct(_, _, _, _)
modal_construct(fields, a, i, built) ==
    IF i > Len(fields) THEN Ok(built)
    ELSE LET c == modal_field_constructor(fields[i], a[i])
         IN  IF ~c.ok THEN c
             ELSE modal_construct(fields, a, i + 1, Append(built, Unwrap(c.value)))

RECURSIVE modal_loop(_, _, _, _)
modal_loop(fields, components, a, i) ==
    IF i > Len(components) THEN modal_construct(fields, a, 1, <<>>)
    ELSE LET step == modal_match(fields, components[i], a)
         IN  IF IsSome(step.ret) THEN Unwrap(step.ret)
             ELSE modal_loop(fields, components, step.acc, i + 1)

\* from_interaction generated for a ModalModel
modal_from_interaction(fields, d) ==
    modal_loop(fields, flat_map(d.components), [i \in 1..Len(fields) |-> None], 1)

ModalModelFields ==
    LET first == { ModalStructField("name", c, k) :
                     c \in {None, Some("foo")}, k \in {"Required", "Optional"} }
        second == { ModalStructField("age", None, k) : k \in {"Required", "Optional"} }
    IN  {<<>>} \cup { <<f>> : f \in first } \cup { <<f, s>> : f \in first, s \in second }
ModalComponents ==
    { ModalComponent(c, Some("v")) : c \in {"name", "age", "foo", "zzz"} }
        \cup { ModalComponent("name", None) }
ModalRows ==
    {<<>>} \cup { <<c>> : c \in ModalComponents }
           \cup { <<c, d>> : c \in ModalComponents, d \in ModalComponents }

InitModalModel ==
    /\ arg \in { [fields |-> fs, data |-> [components |-> rows]] :
                   fs \in ModalModelFields, rows \in SeqsUpTo(ModalRows, MaxRows) }
    /\ ret = None
    /\ model = <<>> /\ data = <<>> /\ pc = "idle" /\ idx = 0 /\ acc = <<>> /\ result = None

ModalFromInteraction ==
    /\ ret = None
    /\ ret' = Some([by |-> "ModalModel::from_interaction",
                    res |-> modal_from_interaction(arg.fields, arg.data)])
    /\ UNCHANGED <<model, data, pc, idx, acc, result, arg>>

NextModalModel == ModalFromInteraction

SpecModalModel == InitModalModel /\ [][NextModalModel]_vars

(***************************************************************************)
(* Properties of the ModalModel derive.                                    *)
(***************************************************************************)
Submitted == flat_map(arg.data.components)
ModalIds == { custom_id_default(arg.fields[k]) : k \in 1..Len(arg.fields) }
Unmatched == { i \in 1..Len(Submitted) : Submitted[i].custom_id \notin ModalIds }
FirstUnmatched == CHOOSE i \in Unmatched : \A j \in Unmatched : i <= j
\* the components submitted for the k-th field, and the value of the last
SubmittedFor(k) ==
    { i \in 1..Len(Submitted) : Submitted[i].custom_id = custom_id_default(arg.fields[k]) }
SubmittedValue(k) ==
    IF SubmittedFor(k) = {} THEN None
    ELSE Submitted[CHOOSE i \in SubmittedFor(k) : \A j \in SubmittedFor(k) : j <= i].value
Unfilled == { k \in 1..Len(arg.fields) :
                arg.fields[k].kind = "Required" /\ SubmittedValue(k) = None }

\* C23: a submitted component whose custom_id is that of no field makes the
\* modal parser fail with UnknownField naming it; when every custom_id is that
\* of a field, a Required field without a submitted value makes it fail with
\* RequiredField, and otherwise an Optional field without one is None
C23_ModalUnknownField ==
    Called =>
        IF Unmatched # {}
        THEN Res = Err(ParseOptionError(Submitted[FirstUnmatched].custom_id, UnknownField))
        ELSE IF Unfilled # {}
        THEN /\ ~Res.ok
             /\ IsSome(Res.err)
             /\ Unwrap(Res.err).kind = RequiredField
             /\ \E k \in Unfilled : Unwrap(Res.err).field = arg.fields[k].ident
        ELSE /\ Res.ok
             /\ \A k \in 1..Len(arg.fields) :
                  arg.fields[k].kind = "Optional" /\ SubmittedValue(k) = None
                      => Unwrap(Res.value)[k] = None

\* an unmatched component after matched ones, and a Required field left
\* without a value, was parsed
C23_Witness ==
    /\ Called
    /\ Unmatched # {}
    /\ FirstUnmatched > 1
    /\ Unfilled # {}
    /\ ~Res.ok

(***************************************************************************)
(* impl_command_model (command/model/command_model.rs): the checks made on *)
(* the classified fields before the parser is emitted.  The input is the   *)
(* type's autocomplete attribute and its fields as from_fields classified  *)
(* them; the result is the declaration the parser is emitted for, or the   *)
(* error of the first field that fails a check.                            *)
(***************************************************************************)
\* the loop with `Required` allowed in an autocomplete model
RECURSIVE check_fields_required_allowed(_, _, _)
check_fields_required_allowed(autocomplete, fields, i) ==
    IF i > Len(fields) THEN Ok(StructModel(autocomplete, fields))
    ELSE IF autocomplete /\ fields[i].kind \notin {"Autocomplete", "Optional", "Required"}
    THEN Err(DeriveError(i,
            <<"autocomplete models only supports 'Option' or 'AutocompleteValue' field type">>))
    ELSE IF ~autocomplete /\ fields[i].kind = "Autocomplete"
    THEN Err(DeriveError(i,
            <<"'AutocompleteValue' is only available in autocomplete models, add the '#[command(autocomplete = true)]' attribute to the type">>))
    ELSE check_fields_required_allowed(autocomplete, fields, i + 1)
\* for field in &fields { .. }
RECURSIVE check_fields(_, _, _)
check_fields(autocomplete, fields, i) ==
    IF i > Len(fields) THEN Ok(StructModel(autocomplete, fields))
    ELSE IF autocomplete /\ fields[i].kind \notin {"Autocomplete", "Optional"}
    THEN Err(DeriveError(i,
            <<"autocomplete models only supports 'Option' or 'AutocompleteValue' field type">>))
    ELSE IF ~autocomplete /\ fields[i].kind = "Autocomplete"
    THEN Err(DeriveError(i,
            <<"'AutocompleteValue' is only available in autocomplete models, add the '#[command(autocomplete = true)]' attribute to the type">>))
    ELSE check_fields(autocomplete, fields, i + 1)

\* impl_command_model
impl_command_model(input) == check_fields(input.autocomplete, input.fields, 1)

InitDeriveModel ==
    /\ arg \in StructModels
    /\ ret = None
    /\ model = <<>> /\ data = <<>> /\ pc = "idle" /\ idx = 0 /\ acc = <<>> /\ result = None

ImplCommandModel ==
    /\ ret = None
    /\ ret' = Some([by |-> "impl_command_model", res |-> impl_command_model(arg)])
    /\ UNCHANGED <<model, data, pc, idx, acc, result, arg>>

NextDeriveModel == ImplCommandModel

SpecDeriveModel == InitDeriveModel /\ [][NextDeriveModel]_vars

(***************************************************************************)
(* Properties of the checks of impl_command_model.                         *)
(***************************************************************************)
KindsOf(m) == { m.fields[i].kind : i \in 1..Len(m.fields) }

\* C24: the derivation of CommandModel succeeds only if every field of a
\* type with autocomplete = true is Optional or Autocomplete, and no field
\* of a type without it is Autocomplete
C24_AutocompleteClassification ==
    Called /\ Res.ok =>
        /\ arg.autocomplete => KindsOf(arg) \subseteq {"Optional", "Autocomplete"}
        /\ ~arg.autocomplete => "Autocomplete" \notin KindsOf(arg)

\* the derivation of an autocomplete model with an Optional and an
\* Autocomplete field succeeded
C24_Witness ==
    /\ Called
    /\ Res.ok
    /\ arg.autocomplete
    /\ KindsOf(arg) = {"Optional", "Autocomplete"}
    /\ Unwrap(Res.value) = arg

(***************************************************************************)
(* Several invocations of generated parsers at once.  Each invocation owns *)
(* its input (from_interaction takes CommandInputData by value) and its    *)
(* locals; here model, data, pc, idx, acc and result are indexed by the    *)
(* invocation.  A struct parser advances one loop iteration at a time, an  *)
(* enum parser is one call; the steps of different invocations interleave  *)
(* freely.                                                                 *)
(***************************************************************************)
MaxInvocations == 2

Invocations == 1..MaxInvocations
OneCommand == EnumModel(<<ParsedVariant("One", "one", OptionCommand)>>)
InvocationOptions ==
    WithTrailing(StructOptions \cup {<<CommandDataOption("option", StringValue(<<"b">>))>>})
InvocationInputs ==
    { [model |-> m, data |-> CommandInputData(o, None)] :
        m \in SubStructs, o \in InvocationOptions }
    \cup { [model |-> OneCommand, data |-> CommandInputData(o, None)] :
            o \in {<<>>} \cup { <<CommandDataOption("one", SubCommandValue(l))>> :
                                  l \in StructOptions } }

InitConcurrent ==
    /\ \E inputs \in [Invocations -> InvocationInputs] :
          /\ model = [p \in Invocations |-> inputs[p].model]
          /\ data = [p \in Invocations |-> inputs[p].data]
    /\ pc = [p \in Invocations |-> IF model[p].type = "struct" THEN "loop" ELSE "call"]
    /\ idx = [p \in Invocations |-> 1]
    /\ acc = [p \in Invocations |-> field_init(model[p].fields)]
    /\ result = [p \in Invocations |-> None]
    /\ arg = None
    /\ ret = None

\* one iteration of the loop of invocation p
LoopStepOf(p) ==
    /\ pc[p] = "loop"
    /\ idx[p] <= Len(data[p].options)
    /\ LET step == LoopBody(model[p], acc[p], data[p].options[idx[p]], data[p].resolved)
       IN  IF IsSome(step.ret)
           THEN /\ result' = [result EXCEPT ![p] = step.ret]
                /\ pc' = [pc EXCEPT ![p] = "done"]
                /\ UNCHANGED <<idx, acc>>
           ELSE /\ acc' = [acc EXCEPT ![p] = step.acc]
                /\ idx' = [idx EXCEPT ![p] = idx[p] + 1]
                /\ UNCHANGED <<pc, result>>
    /\ UNCHANGED <<model, data, arg, ret>>

\* the constructor writing to a place shared by the invocations
ConstructShared(p) ==
    /\ pc[p] = "loop"
    /\ idx[p] > Len(data[p].options)
    /\ result' = [result EXCEPT ![1] = Some(Constructor(model[p].fields, acc[p]))]
    /\ pc' = [pc EXCEPT ![p] = "done"]
    /\ UNCHANGED <<model, data, idx, acc, arg, ret>>
\* `Ok(Self { ... })` of invocation p
ConstructOf(p) ==
    /\ pc[p] = "loop"
    /\ idx[p] > Len(data[p].options)
    /\ result' = [result EXCEPT ![p] = Some(Constructor(model[p].fields, acc[p]))]
    /\ pc' = [pc EXCEPT ![p] = "done"]
    /\ UNCHANGED <<model, data, idx, acc, arg, ret>>

\* the enum parser of invocation p, the call of the inner parser included
CallOf(p) ==
    /\ pc[p] = "call"
    /\ result' = [result EXCEPT ![p] = Some(EnumFromInteraction(model[p], data[p]))]
    /\ pc' = [pc EXCEPT ![p] = "done"]
    /\ UNCHANGED <<model, data, idx, acc, arg, ret>>

NextConcurrent ==
    \E p \in Invocations : LoopStepOf(p) \/ ConstructOf(p) \/ CallOf(p)

SpecConcurrent == InitConcurrent /\ [][NextConcurrent]_vars

(***************************************************************************)
(* Properties of concurrent invocations.                                   *)
(***************************************************************************)
\* the result of the invocation run alone on its input
Alone(p) == FromInteraction(model[p], data[p])

\* C25: under every interleaving an invocation of a generated parser
\* returns what it returns when it runs alone on its input, and until it
\* returns it has written no result
C25_NoInterference ==
    \A p \in Invocations :
        IF pc[p] = "done" THEN result[p] = Some(Alone(p)) ELSE result[p] = None

\* two struct parsers on different inputs, each in the middle of its loop,
\* one holding a value the other does not
C25_Witness ==
    /\ \A p \in Invocations : pc[p] = "loop" /\ model[p].type = "struct"
    /\ idx[1] > 1
    /\ idx[2] > 1
    /\ data[1] # data[2]
    /\ acc[1] # acc[2]

(***************************************************************************)
(* Field classification: StructField::from_field (command/model/parse.rs)  *)
(* with extract_option and extract_type (parse.rs).  A type is a path: its *)
(* last segment's name, whether it is more than that one segment (a        *)
(* leading colon, a qualified self or several segments), and the segment's *)
(* arguments: none, or an angle-bracketed list of types and lifetimes.     *)
(* The types ranged over are those rustc accepts for Option and            *)
(* AutocompleteValue, which take exactly one type argument when written    *)
(* as a single segment.                                                    *)
(***************************************************************************)
MaxTypeDepth == 2

NoArguments == [bracketed |-> FALSE, args |-> <<>>]
AngleBracketed(args) == [bracketed |-> TRUE, args |-> args]
TypeArgument(ty) == [kind |-> "Type", ty |-> ty]
LifetimeArgument == [kind |-> "Lifetime", ty |-> <<>>]
TypePath(name, long, arguments) == [name |-> name, long |-> long, arguments |-> arguments]

\* extract_type with the name test dropped
extract_type_any_name(ty, name) ==
    IF ~ty.long
    THEN IF ~ty.arguments.bracketed THEN None
         ELSE IF ty.arguments.args = <<>> THEN Panic
         ELSE IF Head(ty.arguments.args).kind = "Type"
              THEN Some(Head(ty.arguments.args).ty)
              ELSE None
    ELSE None
\* extract_type: Panic stands for `params.args.first().unwrap()` on `<>`
extract_type(ty, name) ==
    IF ~ty.long /\ ty.name = name
    THEN IF ~ty.arguments.bracketed THEN None
         ELSE IF ty.arguments.args = <<>> THEN Panic
         ELSE IF Head(ty.arguments.args).kind = "Type"
              THEN Some(Head(ty.arguments.args).ty)
              ELSE None
    ELSE None

\* extract_option
extract_option(ty) == extract_type(ty, "Option")

\* StructField::from_field: the kind and the base type of the field
from_field(field) ==
    LET option == extract_option(field.ty)
    IN  IF option = Panic THEN Panic
        ELSE IF IsSome(option)
        THEN LET inner == extract_type(Unwrap(option), "AutocompleteValue")
             IN  IF inner = Panic THEN Panic
                 ELSE IF IsSome(inner)
                 THEN Err(DeriveError(field.ident,
                         <<"AutocompleteValue cannot be wrapped in 'Option<T>'">>))
                 ELSE Ok([ident |-> field.ident, kind |-> "Optional", ty |-> Unwrap(option)])
        ELSE LET inner == extract_type(field.ty, "AutocompleteValue")
             IN  IF inner = Panic THEN Panic
                 ELSE IF IsSome(inner)
                 THEN Ok([ident |-> field.ident, kind |-> "Autocomplete", ty |-> Unwrap(inner)])
                 ELSE Ok([ident |-> field.ident, kind |-> "Required", ty |-> field.ty])

TypeNames == {"Option", "AutocompleteValue", "String", "Cow"}
Wrappers == {"Option", "AutocompleteValue"}
RECURSIVE TypesUpTo(_)
TypesUpTo(depth) ==
    LET plain == { TypePath(n, l, NoArguments) : n \in TypeNames \ Wrappers, l \in BOOLEAN }
                 \cup { TypePath("Cow", l, a) :
                          l \in BOOLEAN, a \in {AngleBracketed(<<>>), AngleBracketed(<<LifetimeArgument>>)} }
    IN  IF depth = 0 THEN plain
        ELSE plain \cup
             { TypePath(n, l, AngleBracketed(<<TypeArgument(t)>>)) :
                 n \in TypeNames \ {"String"}, l \in BOOLEAN, t \in TypesUpTo(depth - 1) }

InitClassify ==
    /\ arg \in { [ident |-> "field", ty |-> t] : t \in TypesUpTo(MaxTypeDepth) }
    /\ ret = None
    /\ model = <<>> /\ data = <<>> /\ pc = "idle" /\ idx = 0 /\ acc = <<>> /\ result = None

FromField ==
    /\ ret = None
    /\ ret' = Some([by |-> "StructField::from_field", res |-> from_field(arg)])
    /\ UNCHANGED <<model, data, pc, idx, acc, result, arg>>

NextClassify == FromField

SpecClassify == InitClassify /\ [][NextClassify]_vars

(***************************************************************************)
(* Properties of the field classification.                                 *)
(***************************************************************************)
\* the type is `name<T>` written as a single segment
IsWrapped(ty, name) ==
    /\ ~ty.long
    /\ ty.name = name
    /\ ty.arguments.bracketed
    /\ Len(ty.arguments.args) = 1
    /\ ty.arguments.args[1].kind = "Type"
TypeArgumentOf(ty) == ty.arguments.args[1].ty
Classified(kind, ty) == Ok([ident |-> arg.ident, kind |-> kind, ty |-> ty])

\* C26: from_field classifies Option<T> as Optional with base T, stripping
\* one Option only; AutocompleteValue<T> as Autocomplete with base T; rejects
\* Option<AutocompleteValue<T>>; and classifies every other type as Required
\* with the type itself as base
C26_FieldClassification ==
    Called =>
        IF IsWrapped(arg.ty, "Option")
        THEN IF IsWrapped(TypeArgumentOf(arg.ty), "AutocompleteValue")
             THEN ~Res.ok /\ ~Panicked(Res)
             ELSE Res = Classified("Optional", TypeArgumentOf(arg.ty))
        ELSE IF IsWrapped(arg.ty, "AutocompleteValue")
        THEN Res = Classified("Autocomplete", TypeArgumentOf(arg.ty))
        ELSE Res = Classified("Required", arg.ty)

\* Option<Option<String>> was classified Optional with base Option<String>
C26_Witness ==
    /\ Called
    /\ IsWrapped(arg.ty, "Option")
    /\ IsWrapped(TypeArgumentOf(arg.ty), "Option")
    /\ Res.ok
    /\ Unwrap(Res.value).kind = "Optional"
    /\ IsWrapped(Unwrap(Res.value).ty, "Option")

(***************************************************************************)
(* Properties of the struct parser on repeated option names.               *)
(***************************************************************************)
\* the options that the arm of field k takes, and the last of them
TakenBy(k) == { i \in 1..Len(Options) : Matching(i) # {} /\ Matched(i) = k }
LastTakenBy(k) == CHOOSE i \in TakenBy(k) : \A j \in TakenBy(k) : j <= i
Coerced(k, i) == Unwrap(Coerce(Fields[k], i).value)
NeverTaken == { k \in 1..Len(Fields) : Fields[k].kind = "Required" /\ TakenBy(k) = {} }
AtTaken ==
    /\ pc = "loop" /\ idx <= Len(Options)
    /\ Matching(idx) # {}
    /\ Coerce(Fields[Matched(idx)], idx).ok
Repeated == { k \in 1..Len(Fields) : \E i, j \in TakenBy(k) : i # j }

\* what the parser returns on a list with nothing unknown or ill-typed and no
\* Required field left out: each field that options name holds the coerced
\* value of the last of them
LastWins ==
    (Returned /\ FailingOptions = {} /\ NeverTaken = {}) =>
        /\ Result.ok
        /\ \A k \in 1..Len(Fields) :
              TakenBy(k) # {} =>
                  Result.value[1][k].value =
                      IF Fields[k].kind = "Optional"
                      THEN Some(Coerced(k, LastTakenBy(k)))
                      ELSE Coerced(k, LastTakenBy(k))

\* C27: every successful coercion overwrites the accumulator of the field
\* whose arm took the option, whatever it held, and the loop goes on; so a
\* list in which several options name one field is parsed without a
\* duplicate error and the field ends with the value of the last of them
C27_LastDuplicateWins ==
    /\ [][AtTaken =>
            /\ acc' = [acc EXCEPT ![Matched(idx)] = Some(Coerced(Matched(idx), idx))]
            /\ idx' = idx + 1
            /\ pc' = "loop"
            /\ result' = None]_vars
    /\ []LastWins

\* two options named one field with different values and the struct was
\* built with the second
C27_Witness ==
    /\ Returned
    /\ Result.ok
    /\ \E k \in Repeated :
          /\ Coerced(k, 1) # Coerced(k, LastTakenBy(k))
          /\ Fields[k].kind = "Required"
          /\ Result.value[1][k].value = Coerced(k, LastTakenBy(k))

(***************************************************************************)
(* Properties of the field name in the struct parser's errors.             *)
(***************************************************************************)
\* the parser returned from the arm of a field, on a failed coercion
CoercionFailed ==
    /\ Returned /\ ~Result.ok /\ IsSome(Result.err)
    /\ idx <= Len(Options)
    /\ Matching(idx) # {}
\* the parser returned from a constructor, on a Required field without value
RequiredMissing ==
    /\ Returned /\ ~Result.ok /\ IsSome(Result.err)
    /\ idx > Len(Options)
\* the `rename` value when set, else the identifier
OptionNameOf(f) ==
    IF IsSome(f.attributes.rename) THEN Unwrap(f.attributes.rename) ELSE f.ident

\* C28: the error of a failed coercion carries the option name of the field
\* (its rename when set, else its identifier); a RequiredField error carries
\* the identifier of a Required field that has no value, also when the field
\* is renamed
C28_ErrorFieldName ==
    /\ CoercionFailed =>
          /\ Unwrap(Result.err).field = OptionNameOf(Fields[Matched(idx)])
          /\ <<Unwrap(Result.err).kind>> = Coerce(Fields[Matched(idx)], idx).err
    /\ RequiredMissing =>
          /\ Unwrap(Result.err).kind = RequiredField
          /\ \E k \in MissingRequired : Unwrap(Result.err).field = Fields[k].ident

\* a RequiredField error for a renamed field: it names the identifier, which
\* is not the name the parser matches on
C28_Witness ==
    /\ RequiredMissing
    /\ Len(Options) >= 1
    /\ \E k \in MissingRequired :
          /\ IsSome(Fields[k].attributes.rename)
          /\ Unwrap(Result.err).field = Fields[k].ident
          /\ Unwrap(Result.err).field # OptionNameOf(Fields[k])
    /\ \A k \in 1..Len(Fields) : Unwrap(Result.err).field # OptionNameOf(Fields[k])

(***************************************************************************)
(* Properties of the subcommand parser on the options after the first.     *)
(***************************************************************************)
\* the input cut down to its first option
FirstOnly == CommandInputData(<<Options[1]>>, data.resolved)

\* C29: the enum parser reads the option at index 0 only: on a non-empty
\* list it returns what it returns on the list of the first option alone,
\* whatever follows, so two lists with the same first option give the same
\* result and a later option never causes an error
C29_FirstOptionOnly ==
    (Returned /\ IsEnum /\ Options # <<>>)
        => Result = EnumFromInteraction(model, FirstOnly)

\* an enum was parsed from a list whose second option bears a name no
\* variant declares
C29_Witness ==
    /\ Returned /\ IsEnum /\ Result.ok
    /\ Len(Options) = 2
    /\ \A k \in 1..Len(model.variants) : model.variants[k].name # Options[2].name
    /\ Options[1].name = "one"

(***************************************************************************)
(* i64::from_option and f64::from_option under bounds of either kind.  An  *)
(* Integer bound n is the integer n; a Number bound or value k is the f64  *)
(* 0.25 + k * 2^-54, which lies strictly between the integers 0 and 1.     *)
(***************************************************************************)
MaxMixed == 2

MixedBounds ==
    { None } \cup { Some(IntegerBound(n)) : n \in -MaxMixed..MaxMixed }
             \cup { Some(NumberBound(k)) : k \in -MaxMixed..MaxMixed }
MixedCalls ==
    { [ty |-> "i64", value |-> IntegerValue(n), data |-> CommandOptionData(maxv, minv, None, None)] :
        n \in -MaxMixed..MaxMixed, maxv \in MixedBounds, minv \in MixedBounds }
    \cup
    { [ty |-> "f64", value |-> NumberValue(k), data |-> CommandOptionData(maxv, minv, None, None)] :
        k \in -MaxMixed..MaxMixed, maxv \in MixedBounds, minv \in MixedBounds }

InitMixed ==
    /\ arg \in MixedCalls
    /\ ret = None
    /\ model = <<>> /\ data = <<>> /\ pc = "idle" /\ idx = 0 /\ acc = <<>> /\ result = None

\* <i64 as CommandOption>::from_option(value, data, None)
IntegerCall ==
    /\ ret = None
    /\ arg.ty = "i64"
    /\ ret' = Some([by |-> "i64::from_option", res |-> I64FromOption(arg.value, arg.data, None)])
    /\ UNCHANGED <<model, data, pc, idx, acc, result, arg>>

\* <f64 as CommandOption>::from_option(value, data, None)
NumberCall ==
    /\ ret = None
    /\ arg.ty = "f64"
    /\ ret' = Some([by |-> "f64::from_option", res |-> F64FromOption(arg.value, arg.data, None)])
    /\ UNCHANGED <<model, data, pc, idx, acc, result, arg>>

NextMixed == IntegerCall \/ NumberCall

SpecMixed == InitMixed /\ [][NextMixed]_vars

(***************************************************************************)
(* Properties of bounds whose kind is not the kind of the field.           *)
(***************************************************************************)
\* the kind of bound that the type of the call compares with
OwnKind == IF arg.ty = "i64" THEN "Integer" ELSE "Number"
Mismatched(b) == IsSome(b) /\ Unwrap(b).variant # OwnKind
NoOwnBound(b) == b = None \/ Mismatched(b)
\* the value lies outside the mismatched bound, compared as real numbers
\* (a Number is between 0 and 1)
UnderMismatchedMin ==
    /\ Mismatched(arg.data.min_value)
    /\ IF arg.ty = "i64" THEN arg.value.int <= 0 ELSE Unwrap(arg.data.min_value).n >= 1
OverMismatchedMax ==
    /\ Mismatched(arg.data.max_value)
    /\ IF arg.ty = "i64" THEN arg.value.int >= 1 ELSE Unwrap(arg.data.max_value).n <= 0
WithoutMismatched ==
    CommandOptionData(IF Mismatched(arg.data.max_value) THEN None ELSE arg.data.max_value,
                      IF Mismatched(arg.data.min_value) THEN None ELSE arg.data.min_value,
                      None, None)

====
